---- MODULE Spec2Model ----
(***************************************************************************)
(* ArrEm-sync: additive tag synchronisation from Radarr/Sonarr ("Arr")     *)
(* instances to an Emby server.  The model follows package arrem_sync:     *)
(* EmbyClient (listing caches, provider-ID index, tag-add request),        *)
(* TagSyncService (tag resolution, matching, per-item sync, statistics)    *)
(* and MultiTagSyncService (the sequential loop over the instances).       *)
(***************************************************************************)
EXTENDS Integers, Sequences, FiniteSets, TLC

\* Total number of Arr items the instances return over one run.
MaxItems == 2
\* The same total for a run with a single instance (InitBatch).
BatchItems == 3

\* Config.batch_size: its default, and the values a configuration may give
\* it (any int).
DefaultBatchSize == 50
BatchSizes == {-1, 0, 1, 2, DefaultBatchSize}

\* Optional values (Python None / a value).
None == <<>>
Some(x) == <<x>>

RECURSIVE SeqToSet(_)
SeqToSet(s) == IF s = <<>> THEN {} ELSE {Head(s)} \cup SeqToSet(Tail(s))

(***************************************************************************)
(* Input data.                                                             *)
(***************************************************************************)

\* The instance types the configuration accepts.
ArrTypes == {"radarr", "sonarr"}

\* The configured instance lists (the arr_type of each client, in order).
ArrConfigs == [{1, 2} -> ArrTypes]

\* The Emby library: two movies and one series.  The series shares its TMDb
\* ID with the first movie; the two movies differ in every ID.
EmbyLibrary ==
    << [Id |-> "e1", Type |-> "Movie",  ProviderIds |-> [Tmdb |-> "1", Imdb |-> "tt1"]],
       [Id |-> "e2", Type |-> "Movie",  ProviderIds |-> [Tmdb |-> "2", Imdb |-> "tt2"]],
       [Id |-> "e3", Type |-> "Series", ProviderIds |-> [Tmdb |-> "1", Tvdb |-> "7"]] >>

EmbyIds == {EmbyLibrary[i].Id : i \in 1..Len(EmbyLibrary)}

\* The tag names the Emby items carry before the run: "X" is a tag a user
\* set, "A" and "Unknown-3" are tags an earlier run added.
embyInit ==
    [e \in EmbyIds |-> CASE e = "e1" -> {"X"}
                         [] e = "e2" -> {"Unknown-3"}
                         [] e = "e3" -> {"A"}]

\* Tag definitions an Arr instance may return (GET /api/v3/tag).
ArrTagLists ==
    { << [id |-> 1, label |-> "A"], [id |-> 2, label |-> "B"] >>,
      << [id |-> 1, label |-> "B"] >> }

\* Items an Arr instance may return; 0 and "" stand for an absent ID.
ArrItemPool ==
    { [tmdbId |-> 1, imdbId |-> "tt2", tvdbId |-> 0, tags |-> <<2, 1>>],
      [tmdbId |-> 1, imdbId |-> "",    tvdbId |-> 0, tags |-> <<1>>],
      [tmdbId |-> 9, imdbId |-> "tt2", tvdbId |-> 7, tags |-> <<3>>],
      [tmdbId |-> 0, imdbId |-> "",    tvdbId |-> 0, tags |-> <<1>>],
      [tmdbId |-> 2, imdbId |-> "",    tvdbId |-> 0, tags |-> <<>>] }

\* The lists of at most n items.
ItemLists(n) == UNION {[1..k -> ArrItemPool] : k \in 0..n}

\* Faults of one per-item call: an exception raised while matching (inside
\* the call's try block), or an exception that leaves the call.
ItemFaults == {"none", "match", "escape"}

\* Answers of the Emby server to the tag-add POST.
PostOutcomes == {"ok", "error"}

(***************************************************************************)
(* Program state.                                                          *)
(***************************************************************************)
VARIABLES
    dry_run,          \* MultiTagSyncService.dry_run, shared by every service
    arr_type,         \* arr_type[i]: ArrClient.arr_type of arr_clients[i]
    arr_tags_cache,   \* arr_tags_cache[i]: TagSyncService._arr_tags_cache
    emby_client,      \* EmbyClient caches: movies_cache, series_cache, provider_id_cache
    embyTags,         \* the Emby server: tag names of every item
    pc,               \* position in sync_all_instances / sync_all_tags
    inst,             \* the instance being synced (loop variable i)
    remaining,        \* Arr items the run may still return (model bound)
    arr_items,        \* sync_all_tags: the list get_all_items returned
    pos,              \* number of items of arr_items the loop has taken
    stats,            \* sync_all_tags: stats of the running instance
    overall_stats,    \* sync_all_instances: overall_stats
    last,             \* the latest per-item call: its input, what it did, the stats before it
    writes,           \* tag-add requests sent to Emby so far
    synced,           \* synced[e][i]: the labels instance i's successful syncs resolved for e
    requests,         \* requests[i]: the probes and HTTP requests of instance i's sync_all_tags
    connection_results, \* sync_all_instances: what test_all_connections returned
    probes,           \* the services test_all_connections probed, in order
    fatal_error,      \* the exception sync_all_instances raised, if any
    exit_code,        \* the status the sync command exited with, if it has
    batch_size,       \* Config.batch_size, passed down to sync_all_tags
    options,          \* the flags the command line gave: --dry-run, --no-dry-run
    environ,          \* os.environ: ARREM_DRY_RUN and the numbered ARREM_ARR_N_* variables
    output            \* the result lines the test command printed

vars == << dry_run, arr_type, arr_tags_cache, emby_client, embyTags,
           pc, inst, remaining, arr_items, pos, stats, overall_stats, last, writes, synced,
           requests, connection_results, probes, fatal_error, exit_code, batch_size,
           options, environ, output >>

\* What only test_all_connections and the start of the run set.
setup == << dry_run, arr_type, batch_size, connection_results, probes, fatal_error,
            options, environ, output >>

(***************************************************************************)
(* The Emby server.                                                        *)
(***************************************************************************)

\* GET /emby/Items?IncludeItemTypes=<kind>: the items of that kind the server
\* holds (those it has tags for), each with its tag names at the time of the
\* request.
EmbyListing(kind, server) ==
    LET items == SelectSeq(EmbyLibrary, LAMBDA it : it.Type = kind /\ it.Id \in DOMAIN server)
    IN  [k \in 1..Len(items) |->
            [Id |-> items[k].Id, Type |-> items[k].Type,
             ProviderIds |-> items[k].ProviderIds, TagItems |-> server[items[k].Id]]]

\* POST /emby/Items/{id}/Tags/Add replaced by a request that sets the tag list.
TagsSetRequest(server, item_id, tags) ==
    [server EXCEPT ![item_id] = SeqToSet(tags)]

\* POST /emby/Items/{id}/Tags/Add with body {"Tags": [{"Name": t}, ...]}.
TagsAddRequest(server, item_id, tags) ==
    [server EXCEPT ![item_id] = @ \cup SeqToSet(tags)]

(***************************************************************************)
(* EmbyClient.                                                             *)
(***************************************************************************)

\* The caches of a new EmbyClient; requests and fetched count, per kind, the
\* listing requests the client sent and those the server answered.
EmbyClientInit ==
    [movies_cache |-> None, series_cache |-> None, provider_id_cache |-> <<>>,
     requests |-> [Movie |-> 0, Series |-> 0], fetched |-> [Movie |-> 0, Series |-> 0]]

cache_key(provider, provider_id) == provider \o ":" \o provider_id

\* str.lower() on the strings the model uses.
Lower(s) ==
    CASE s = "Movie" -> "movie"
      [] s = "Series" -> "series"
      [] s = "Radarr" -> "radarr"
      [] s = "Sonarr" -> "sonarr"
      [] s = "On" -> "on"
      [] s = "TRUE" -> "true"
      [] OTHER -> s

\* The keys one item contributes to the provider-ID cache.
ItemKeys(item) ==
    {cache_key(p, item.ProviderIds[p]) : p \in DOMAIN item.ProviderIds}

\* The index built without replacing an entry that is already there.
RECURSIVE _build_provider_id_cache_keeping_first(_, _)
_build_provider_id_cache_keeping_first(cache, items) ==
    IF items = <<>> THEN cache
    ELSE LET item == Head(items)
             next == [k \in DOMAIN cache \cup ItemKeys(item) |->
                        IF k \in DOMAIN cache THEN cache[k] ELSE item]
         IN  _build_provider_id_cache_keeping_first(next, Tail(items))

\* self._provider_id_cache[f"{provider}:{provider_id}"] = item, for every
\* item of the list in order and every provider ID of the item.
RECURSIVE _build_provider_id_cache(_, _)
_build_provider_id_cache(cache, items) ==
    IF items = <<>> THEN cache
    ELSE LET item == Head(items)
             next == [k \in DOMAIN cache \cup ItemKeys(item) |->
                        IF k \in ItemKeys(item) THEN item ELSE cache[k]]
         IN  _build_provider_id_cache(next, Tail(items))

\* get_all_movies returning an empty list, uncached, when the request fails.
get_all_movies_swallowing_failure(ec, server, ok) ==
    IF ec.movies_cache # None THEN [raised |-> FALSE, fetched |-> FALSE, ec |-> ec]
    ELSE IF ~ok THEN [raised |-> FALSE, fetched |-> TRUE,
                      ec |-> [ec EXCEPT !.requests.Movie = @ + 1]]
    ELSE LET items == EmbyListing("Movie", server)
         IN  [raised |-> FALSE, fetched |-> TRUE,
              ec |-> [ec EXCEPT !.movies_cache = Some(items),
                                !.provider_id_cache = _build_provider_id_cache(@, items),
                                !.requests.Movie = @ + 1, !.fetched.Movie = @ + 1]]

\* get_all_movies / get_all_series: the cached listing, or one fetch that is
\* cached and indexed; ok = FALSE is a failed request, which raises.
get_all_movies(ec, server, ok) ==
    IF ec.movies_cache # None THEN [raised |-> FALSE, fetched |-> FALSE, ec |-> ec]
    ELSE IF ~ok THEN [raised |-> TRUE, fetched |-> TRUE,
                      ec |-> [ec EXCEPT !.requests.Movie = @ + 1]]
    ELSE LET items == EmbyListing("Movie", server)
         IN  [raised |-> FALSE, fetched |-> TRUE,
              ec |-> [ec EXCEPT !.movies_cache = Some(items),
                                !.provider_id_cache = _build_provider_id_cache(@, items),
                                !.requests.Movie = @ + 1, !.fetched.Movie = @ + 1]]

\* get_all_series testing the cache for truth instead of for None.
get_all_series_refetching_empty(ec, server, ok) ==
    IF ec.series_cache # None /\ ec.series_cache # Some(<<>>)
    THEN [raised |-> FALSE, fetched |-> FALSE, ec |-> ec]
    ELSE IF ~ok THEN [raised |-> TRUE, fetched |-> TRUE,
                      ec |-> [ec EXCEPT !.requests.Series = @ + 1]]
    ELSE LET items == EmbyListing("Series", server)
         IN  [raised |-> FALSE, fetched |-> TRUE,
              ec |-> [ec EXCEPT !.series_cache = Some(items),
                                !.provider_id_cache = _build_provider_id_cache(@, items),
                                !.requests.Series = @ + 1, !.fetched.Series = @ + 1]]

get_all_series(ec, server, ok) ==
    IF ec.series_cache # None THEN [raised |-> FALSE, fetched |-> FALSE, ec |-> ec]
    ELSE IF ~ok THEN [raised |-> TRUE, fetched |-> TRUE,
                      ec |-> [ec EXCEPT !.requests.Series = @ + 1]]
    ELSE LET items == EmbyListing("Series", server)
         IN  [raised |-> FALSE, fetched |-> TRUE,
              ec |-> [ec EXCEPT !.series_cache = Some(items),
                                !.provider_id_cache = _build_provider_id_cache(@, items),
                                !.requests.Series = @ + 1, !.fetched.Series = @ + 1]]

\* clear_cache leaving the provider-ID index as it is.
clear_cache_keeping_index(ec) ==
    [ec EXCEPT !.movies_cache = None, !.series_cache = None]

\* clear_cache: both listing caches back to None, the provider-ID dict emptied.
\* The request counts are not part of the client and stay.
clear_cache(ec) ==
    [ec EXCEPT !.movies_cache = None, !.series_cache = None, !.provider_id_cache = <<>>]

\* The lookup without the check of the indexed item's Type.
lookup_provider_id_any_type(r, key, item_type) ==
    IF r.raised THEN [item |-> None, ec |-> r.ec]
    ELSE IF key \in DOMAIN r.ec.provider_id_cache
         THEN [item |-> Some(r.ec.provider_id_cache[key]), ec |-> r.ec]
         ELSE [item |-> None, ec |-> r.ec]

\* find_item_by_provider_id once the listing is there (r): the indexed item
\* under the key, if it is of the requested kind.
lookup_provider_id(r, key, item_type) ==
    IF r.raised THEN [item |-> None, ec |-> r.ec]
    ELSE IF /\ key \in DOMAIN r.ec.provider_id_cache
            /\ Lower(r.ec.provider_id_cache[key].Type) = Lower(item_type)
         THEN [item |-> Some(r.ec.provider_id_cache[key]), ec |-> r.ec]
         ELSE [item |-> None, ec |-> r.ec]

\* find_item_by_provider_id: the indexed item of the requested kind, if any.
\* Every exception, a failed listing fetch included, yields None.
find_item_by_provider_id(ec, provider, provider_id, item_type, server, ok) ==
    lookup_provider_id(
        IF item_type = "Movie" THEN get_all_movies(ec, server, ok)
        ELSE IF item_type = "Series" THEN get_all_series(ec, server, ok)
        ELSE [raised |-> FALSE, fetched |-> FALSE, ec |-> ec],
        cache_key(provider, provider_id), item_type)

\* create_session: the retry policy mounted on the client's HTTP session.
total_retries == 3
allowed_methods == {"HEAD", "GET", "OPTIONS"}

\* A session that retries a failed request of any method.
requests_sent_any_method(method, outcome) ==
    IF outcome = "error" THEN 1 + total_retries ELSE 1

\* The requests the session sends for one call of session.get or
\* session.post: a request answered with an error is sent again, up to
\* total_retries times, when its method is one the policy allows.
requests_sent(method, outcome) ==
    IF outcome = "error" /\ method \in allowed_methods THEN 1 + total_retries ELSE 1

\* update_item_tags without the dry-run return.
update_item_tags_ignoring_dry_run(server, item_id, tags, dry, outcome) ==
    [success |-> outcome = "ok", posted |-> TRUE,
     server |-> IF outcome = "ok" THEN TagsAddRequest(server, item_id, tags) ELSE server]

\* update_item_tags reporting success without sending the request.
update_item_tags_without_request(server, item_id, tags, dry, outcome) ==
    [success |-> TRUE, posted |-> FALSE, server |-> server]

\* update_item_tags: under dry-run True at once; otherwise one tag-add POST,
\* True when it succeeds and False when the request raises.
update_item_tags(server, item_id, tags, dry, outcome) ==
    IF dry THEN [success |-> TRUE, posted |-> FALSE, server |-> server]
    ELSE [success |-> outcome = "ok", posted |-> TRUE,
          server |-> IF outcome = "ok" THEN TagsAddRequest(server, item_id, tags)
                     ELSE server]

(***************************************************************************)
(* TagSyncService.                                                         *)
(***************************************************************************)

\* The dict {tag["id"]: tag["label"] for tag in tags}: a later entry of the
\* list replaces an earlier one with the same id.
RECURSIVE TagsToMapping(_, _)
TagsToMapping(mapping, tags) ==
    IF tags = <<>> THEN mapping
    ELSE LET t == Head(tags)
         IN  TagsToMapping([k \in DOMAIN mapping \cup {t.id} |->
                               IF k = t.id THEN t.label ELSE mapping[k]], Tail(tags))

\* get_arr_tags_mapping fetching the tag list on every call.
get_arr_tags_mapping_uncached(cache, response) ==
    IF response = None THEN [raised |-> TRUE, fetched |-> TRUE, cache |-> cache]
    ELSE [raised |-> FALSE, fetched |-> TRUE,
          cache |-> Some(TagsToMapping(<<>>, response[1]))]

\* get_arr_tags_mapping: the cached mapping, or one fetch of the instance's tag
\* list; response = None is a failed request, which raises.
get_arr_tags_mapping(cache, response) ==
    IF cache # None THEN [raised |-> FALSE, fetched |-> FALSE, cache |-> cache]
    ELSE IF response = None THEN [raised |-> TRUE, fetched |-> TRUE, cache |-> cache]
    ELSE [raised |-> FALSE, fetched |-> TRUE,
          cache |-> Some(TagsToMapping(<<>>, response[1]))]

\* resolve_tag_labels dropping the IDs the mapping does not know.
resolve_tag_labels_dropping_unknown(tag_mapping, tag_ids) ==
    LET known == SelectSeq(tag_ids, LAMBDA id : id \in DOMAIN tag_mapping)
    IN  [k \in 1..Len(known) |-> tag_mapping[known[k]]]

\* resolve_tag_labels: tag_mapping.get(tag_id, f"Unknown-{tag_id}") per ID.
resolve_tag_labels(tag_mapping, tag_ids) ==
    [k \in 1..Len(tag_ids) |->
        IF tag_ids[k] \in DOMAIN tag_mapping THEN tag_mapping[tag_ids[k]]
        ELSE "Unknown-" \o ToString(tag_ids[k])]

\* item_type giving Series to sonarr only.
item_type_of_sonarr_only(atype) == IF atype = "sonarr" THEN "Series" ELSE "Movie"

\* item_type = "Movie" if self.arr_client.arr_type == "radarr" else "Series"
item_type_of(atype) == IF atype = "radarr" THEN "Movie" ELSE "Series"

\* provider_attempts of find_matching_emby_item with IMDb tried before TMDb.
provider_attempts_imdb_first(atype, arr_item) ==
    (IF arr_item.imdbId # "" THEN << <<"Imdb", arr_item.imdbId>> >> ELSE <<>>)
    \o (IF arr_item.tmdbId # 0 THEN << <<"Tmdb", ToString(arr_item.tmdbId)>> >> ELSE <<>>)
    \o (IF atype = "sonarr" /\ arr_item.tvdbId # 0
        THEN << <<"Tvdb", ToString(arr_item.tvdbId)>> >> ELSE <<>>)

\* provider_attempts of find_matching_emby_item: TMDb, IMDb, and for sonarr
\* TVDB, each only when the item carries the ID.
provider_attempts(atype, arr_item) ==
    (IF arr_item.tmdbId # 0 THEN << <<"Tmdb", ToString(arr_item.tmdbId)>> >> ELSE <<>>)
    \o (IF arr_item.imdbId # "" THEN << <<"Imdb", arr_item.imdbId>> >> ELSE <<>>)
    \o (IF atype = "sonarr" /\ arr_item.tvdbId # 0
        THEN << <<"Tvdb", ToString(arr_item.tvdbId)>> >> ELSE <<>>)

\* The loop over provider_attempts: stop at the first lookup that finds an
\* item.  AfterLookup is the loop body once the lookup returned r.
RECURSIVE TryProviders(_, _, _, _, _, _)
AfterLookup(r, attempts, lookups, item_type, server, ok) ==
    IF r.item # None
    THEN [item |-> r.item, ec |-> r.ec, lookups |-> Append(lookups, Head(attempts))]
    ELSE TryProviders(Tail(attempts), Append(lookups, Head(attempts)), r.ec,
                      item_type, server, ok)

TryProviders(attempts, lookups, ec, item_type, server, ok) ==
    IF attempts = <<>> THEN [item |-> None, ec |-> ec, lookups |-> lookups]
    ELSE AfterLookup(find_item_by_provider_id(ec, Head(attempts)[1], Head(attempts)[2],
                                              item_type, server, ok),
                     attempts, lookups, item_type, server, ok)

find_matching_emby_item(atype, arr_item, ec, server, ok) ==
    TryProviders(provider_attempts(atype, arr_item), <<>>, ec, item_type_of(atype), server, ok)

\* missing_tags computed as the whole resolved list.
missing_tags_full_set(new_tags, current_set) == new_tags

\* The missing tags without the labels made up for unknown tag IDs.
missing_tags_without_sentinels(new_tags, current_set) ==
    SelectSeq(new_tags, LAMBDA t : t \notin current_set
                                   /\ t \notin {"Unknown-" \o ToString(id) : id \in 1..9})

\* missing_tags = [t for t in new_tags if t not in current_set].
missing_tags_of(new_tags, current_set) ==
    SelectSeq(new_tags, LAMBDA t : t \notin current_set)

\* What one call of sync_tags_for_item_structured returns and does: the
\* result code, the caches and the server after it, and what it looked up,
\* resolved and sent.  code "raised" stands for an exception leaving the call.
NoResult(ec, cache, server) ==
    [code |-> "", success |-> FALSE, message |-> "",
     ec |-> ec, cache |-> cache, server |-> server,
     lookups |-> <<>>, emby_id |-> "", new_tags |-> <<>>, current |-> {},
     payload |-> <<>>, called |-> FALSE, posted |-> FALSE, tags_requested |-> FALSE]

\* The end of the call with the client's caches cleared after a tag add.
after_update_clearing_cache(b, missing_tags, u, dry) ==
    [b EXCEPT !.payload = missing_tags, !.called = TRUE, !.posted = u.posted,
              !.server = u.server, !.success = u.success,
              !.ec = IF u.posted /\ u.success THEN clear_cache(@) ELSE @,
              !.code = IF u.success THEN "updated" ELSE "failed",
              !.message = IF ~u.success THEN "Failed to update tags in Emby"
                          ELSE IF dry THEN "Would add tags" ELSE "Added tags"]

\* The end of the call, once update_item_tags returned u for missing_tags.
after_update(b, missing_tags, u, dry) ==
    [b EXCEPT !.payload = missing_tags, !.called = TRUE, !.posted = u.posted,
              !.server = u.server, !.success = u.success,
              !.code = IF u.success THEN "updated" ELSE "failed",
              !.message = IF ~u.success THEN "Failed to update tags in Emby"
                          ELSE IF dry THEN "Would add tags" ELSE "Added tags"]

\* The comparison of the resolved labels with the item's current tag names.
reconcile_tags(b, emby_item, new_tags, current_set, server, dry, outcome) ==
    IF SeqToSet(new_tags) \subseteq current_set
    THEN [b EXCEPT !.new_tags = new_tags, !.current = current_set,
                   !.code = "already_synced", !.success = TRUE,
                   !.message = "Tags already up to date"]
    ELSE after_update([b EXCEPT !.new_tags = new_tags, !.current = current_set],
                      missing_tags_of(new_tags, current_set),
                      update_item_tags(server, emby_item.Id,
                                       missing_tags_of(new_tags, current_set), dry, outcome),
                      dry)

\* The call taking the item's current tags from the server, not from the
\* cached item.
after_tags_mapping_reading_server(b, emby_item, mp, arr_item, server, dry, outcome) ==
    IF mp.raised
    THEN [b EXCEPT !.code = "error", !.message = "Error: tags", !.tags_requested = mp.fetched]
    ELSE reconcile_tags([b EXCEPT !.cache = mp.cache, !.tags_requested = mp.fetched], emby_item,
                        resolve_tag_labels(mp.cache[1], arr_item.tags),
                        server[emby_item.Id], server, dry, outcome)

\* The call once the tag mapping was asked for (mp): an exception of the
\* fetch ends it with an error result.
after_tags_mapping(b, emby_item, mp, arr_item, server, dry, outcome) ==
    IF mp.raised
    THEN [b EXCEPT !.code = "error", !.message = "Error: tags", !.tags_requested = mp.fetched]
    ELSE reconcile_tags([b EXCEPT !.cache = mp.cache, !.tags_requested = mp.fetched], emby_item,
                        resolve_tag_labels(mp.cache[1], arr_item.tags),
                        emby_item.TagItems, server, dry, outcome)

\* after_match looking at the item's tag IDs before the match.
after_match_tags_first(m, cache, server, dry, arr_item, response, outcome) ==
    IF arr_item.tags = <<>>
    THEN [NoResult(m.ec, cache, server) EXCEPT
             !.lookups = m.lookups, !.emby_id = IF m.item = None THEN "" ELSE m.item[1].Id,
             !.code = "no_tags", !.success = TRUE, !.message = "No tags to sync"]
    ELSE IF m.item = None
    THEN [NoResult(m.ec, cache, server) EXCEPT
             !.lookups = m.lookups, !.code = "not_in_emby", !.success = TRUE,
             !.message = "Item not found in Emby"]
    ELSE after_tags_mapping([NoResult(m.ec, cache, server) EXCEPT
                                !.lookups = m.lookups, !.emby_id = m.item[1].Id],
                            m.item[1], get_arr_tags_mapping(cache, response),
                            arr_item, server, dry, outcome)

\* The call once find_matching_emby_item returned m.
after_match(m, cache, server, dry, arr_item, response, outcome) ==
    LET b == [NoResult(m.ec, cache, server) EXCEPT !.lookups = m.lookups] IN
    IF m.item = None
    THEN [b EXCEPT !.code = "not_in_emby", !.success = TRUE,
                   !.message = "Item not found in Emby"]
    ELSE IF arr_item.tags = <<>>
    THEN [b EXCEPT !.emby_id = m.item[1].Id, !.code = "no_tags", !.success = TRUE,
                   !.message = "No tags to sync"]
    ELSE after_tags_mapping([b EXCEPT !.emby_id = m.item[1].Id], m.item[1],
                            get_arr_tags_mapping(cache, response),
                            arr_item, server, dry, outcome)

sync_tags_for_item_structured(ec, cache, server, dry, atype, arr_item, fault, response, outcome, ok) ==
    IF fault = "escape"
    THEN [NoResult(ec, cache, server) EXCEPT !.code = "raised", !.message = "Unexpected error"]
    ELSE IF fault = "match"
    THEN [NoResult(ec, cache, server) EXCEPT !.code = "error", !.message = "Error: matching"]
    ELSE after_match(find_matching_emby_item(atype, arr_item, ec, server, ok),
                     cache, server, dry, arr_item, response, outcome)

\* clear_caches: the service's tag mapping back to None and the Emby client's
\* caches cleared.
clear_caches(cache, ec) == [cache |-> None, ec |-> clear_cache(ec)]

ZeroStats ==
    [total_items |-> 0, processed_items |-> 0, successful_syncs |-> 0,
     failed_syncs |-> 0, not_in_emby |-> 0, already_synced |-> 0,
     no_tags_to_sync |-> 0, errors |-> <<>>]

\* The item loop's bookkeeping, with processed_items counted only for
\* successful results.
record_result_success_only(st, res, item_no) ==
    IF res.code = "raised"
    THEN [st EXCEPT !.failed_syncs = @ + 1,
                    !.errors = Append(@, [item |-> item_no, message |-> res.message])]
    ELSE IF res.success
    THEN LET p == [st EXCEPT !.processed_items = @ + 1] IN
         CASE res.code = "not_in_emby"    -> [p EXCEPT !.not_in_emby = @ + 1]
           [] res.code = "already_synced" -> [p EXCEPT !.already_synced = @ + 1]
           [] res.code = "no_tags"        -> [p EXCEPT !.no_tags_to_sync = @ + 1]
           [] OTHER                       -> [p EXCEPT !.successful_syncs = @ + 1]
    ELSE [st EXCEPT !.failed_syncs = @ + 1,
                    !.errors = Append(@, [item |-> item_no, message |-> res.message])]

\* The item loop's bookkeeping, with processed_items counted before the call.
record_result_counting_raised(st, res, item_no) ==
    LET p == [st EXCEPT !.processed_items = @ + 1] IN
    IF res.code = "raised" \/ ~res.success
    THEN [p EXCEPT !.failed_syncs = @ + 1,
                   !.errors = Append(@, [item |-> item_no, message |-> res.message])]
    ELSE CASE res.code = "not_in_emby"    -> [p EXCEPT !.not_in_emby = @ + 1]
           [] res.code = "already_synced" -> [p EXCEPT !.already_synced = @ + 1]
           [] res.code = "no_tags"        -> [p EXCEPT !.no_tags_to_sync = @ + 1]
           [] OTHER                       -> [p EXCEPT !.successful_syncs = @ + 1]

\* The item loop's bookkeeping, with an item Emby does not hold treated as a
\* failure.
record_result_not_found_as_failure(st, res, item_no) ==
    IF res.code = "raised"
    THEN [st EXCEPT !.failed_syncs = @ + 1,
                    !.errors = Append(@, [item |-> item_no, message |-> res.message])]
    ELSE
    LET p == [st EXCEPT !.processed_items = @ + 1] IN
    IF res.success /\ res.code # "not_in_emby"
    THEN CASE res.code = "already_synced" -> [p EXCEPT !.already_synced = @ + 1]
           [] res.code = "no_tags"        -> [p EXCEPT !.no_tags_to_sync = @ + 1]
           [] OTHER                       -> [p EXCEPT !.successful_syncs = @ + 1]
    ELSE [p EXCEPT !.not_in_emby = @ + (IF res.code = "not_in_emby" THEN 1 ELSE 0),
                   !.failed_syncs = @ + 1,
                   !.errors = Append(@, [item |-> item_no, message |-> res.message])]

\* The item loop's bookkeeping that counts an unsuccessful result without
\* recording its message.
record_result_without_message(st, res, item_no) ==
    IF res.code = "raised"
    THEN [st EXCEPT !.failed_syncs = @ + 1,
                    !.errors = Append(@, [item |-> item_no, message |-> res.message])]
    ELSE IF res.success
    THEN CASE res.code = "not_in_emby" ->
                [st EXCEPT !.processed_items = @ + 1, !.not_in_emby = @ + 1]
           [] res.code = "already_synced" ->
                [st EXCEPT !.processed_items = @ + 1, !.already_synced = @ + 1]
           [] res.code = "no_tags" ->
                [st EXCEPT !.processed_items = @ + 1, !.no_tags_to_sync = @ + 1]
           [] OTHER ->
                [st EXCEPT !.processed_items = @ + 1, !.successful_syncs = @ + 1]
    ELSE [st EXCEPT !.processed_items = @ + 1, !.failed_syncs = @ + 1]

\* The item loop's bookkeeping for one item: a returned result counts as
\* processed and goes to its counter; an exception from the call is caught,
\* counted as failed and recorded, and is not counted as processed.
record_result(st, res, item_no) ==
    IF res.code = "raised"
    THEN [st EXCEPT !.failed_syncs = @ + 1,
                    !.errors = Append(@, [item |-> item_no, message |-> res.message])]
    ELSE
    LET p == [st EXCEPT !.processed_items = @ + 1] IN
    IF res.success
    THEN CASE res.code = "not_in_emby"    -> [p EXCEPT !.not_in_emby = @ + 1]
           [] res.code = "already_synced" -> [p EXCEPT !.already_synced = @ + 1]
           [] res.code = "no_tags"        -> [p EXCEPT !.no_tags_to_sync = @ + 1]
           [] OTHER                       -> [p EXCEPT !.successful_syncs = @ + 1]
    ELSE [p EXCEPT !.failed_syncs = @ + 1,
                   !.errors = Append(@, [item |-> item_no, message |-> res.message])]

(***************************************************************************)
(* MultiTagSyncService.                                                    *)
(***************************************************************************)

\* The positions of arr_clients (and of sync_services).
Insts == 1..Len(arr_type)

ZeroOverall ==
    [total_instances |-> Len(arr_type), instance_results |-> <<>>,
     total_items |-> 0, processed_items |-> 0, successful_syncs |-> 0,
     failed_syncs |-> 0, not_in_emby |-> 0, already_synced |-> 0,
     no_tags_to_sync |-> 0, errors |-> <<>>]

\* The aggregation with each counter taken from the latest instance.
aggregate_overwriting(ov, i, atype, st) ==
    [ov EXCEPT
        !.instance_results = Append(@, [instance_number |-> i, arr_type |-> atype, stats |-> st]),
        !.total_items      = st.total_items,
        !.processed_items  = st.processed_items,
        !.successful_syncs = st.successful_syncs,
        !.failed_syncs     = st.failed_syncs,
        !.not_in_emby      = st.not_in_emby,
        !.already_synced   = st.already_synced,
        !.no_tags_to_sync  = st.no_tags_to_sync,
        !.errors           = @ \o st.errors]

\* sync_all_instances, after an instance's sync_all_tags returned its stats.
aggregate(ov, i, atype, st) ==
    [ov EXCEPT
        !.instance_results = Append(@, [instance_number |-> i, arr_type |-> atype, stats |-> st]),
        !.total_items      = @ + st.total_items,
        !.processed_items  = @ + st.processed_items,
        !.successful_syncs = @ + st.successful_syncs,
        !.failed_syncs     = @ + st.failed_syncs,
        !.not_in_emby      = @ + st.not_in_emby,
        !.already_synced   = @ + st.already_synced,
        !.no_tags_to_sync  = @ + st.no_tags_to_sync,
        !.errors           = @ \o st.errors]

\* The except branch counting the failed instance as a failed sync.
instance_error_counting_failure(ov, i, atype, e) ==
    [ov EXCEPT
        !.failed_syncs = @ + 1,
        !.errors = Append(@, [instance |-> i, message |-> e]),
        !.instance_results =
            Append(@, [instance_number |-> i, arr_type |-> atype, stats |-> [error |-> e]])]

\* sync_all_instances, after an instance's sync_all_tags raised.
instance_error(ov, i, atype, e) ==
    [ov EXCEPT
        !.errors = Append(@, [instance |-> i, message |-> e]),
        !.instance_results =
            Append(@, [instance_number |-> i, arr_type |-> atype, stats |-> [error |-> e]])]

NoCall ==
    [inst |-> 0, item_no |-> 0, arr_item |-> None, fault |-> "none", code |-> "",
     message |-> "", repeated |-> FALSE, before |-> ZeroStats, lookups |-> <<>>,
     emby_id |-> "", new_tags |-> <<>>, current |-> {},
     payload |-> <<>>, called |-> FALSE, posted |-> FALSE, tags_fetched |-> FALSE]

\* The listing requests an EmbyClient has sent.
ListingRequests(ec) == ec.requests.Movie + ec.requests.Series

(***************************************************************************)
(* Configuration: config.py.                                               *)
(***************************************************************************)

\* The highest index whose ARREM_ARR_N_* variables the environment may set.
MaxIndex == 2

\* The variables of one index: os.getenv gives None for an unset variable,
\* and a set variable may be the empty string.
UnsetInstance == [TYPE |-> None, URL |-> None, API_KEY |-> None, NAME |-> None]

IncompleteInstance(i) ==
    [TYPE |-> Some("radarr"), URL |-> Some("http://arr-" \o ToString(i)), API_KEY |-> Some(""),
     NAME |-> None]

CompleteInstance(i, t, n) ==
    [TYPE |-> Some(t), URL |-> Some("http://arr-" \o ToString(i)), API_KEY |-> Some("key"),
     NAME |-> n]

\* What the environment may hold for index i: nothing, an instance without
\* its API key, or a complete instance (an unnamed Radarr at odd indices, a
\* named Sonarr at even ones).
InstanceEnvs(i) ==
    {UnsetInstance, IncompleteInstance(i),
     IF i % 2 = 1 THEN CompleteInstance(i, "Radarr", None)
     ELSE CompleteInstance(i, "sonarr", Some("TV"))}

\* The values ARREM_DRY_RUN may have.
DryRunEnvs == {None, Some("false"), Some(" On ")}

\* The flags of the sync command.
Options == [dry_run : BOOLEAN, no_dry_run : BOOLEAN]
NoFlags == [dry_run |-> FALSE, no_dry_run |-> FALSE]

\* Python truthiness of what os.getenv returned.
Truthy(v) == v # None /\ v # Some("")

\* str.strip() on the strings the model uses.
Strip(s) ==
    CASE s = " On " -> "On"
      [] s = " " -> ""
      [] OTHER -> s

\* Config._coerce_dry_run on a string value.
_coerce_dry_run(v) ==
    IF Lower(Strip(v)) \in {"true", "1", "yes", "on"} THEN TRUE
    ELSE IF Lower(Strip(v)) \in {"false", "0", "no", "off", ""} THEN FALSE
    ELSE FALSE

\* Config.dry_run: the coerced ARREM_DRY_RUN, or the field's default.
config_dry_run(env) ==
    IF env.ARREM_DRY_RUN = None THEN TRUE ELSE _coerce_dry_run(env.ARREM_DRY_RUN[1])

\* os.getenv on the variables of index idx.
env_get(env, idx) == IF idx \in DOMAIN env.ARR THEN env.ARR[idx] ELSE UnsetInstance

\* ArrInstanceConfig(type=t, url=u, api_key=k, name=n); the type is lowercased.
ArrInstanceConfig(e) ==
    [type |-> Lower(e.TYPE[1]), url |-> e.URL[1], api_key |-> e.API_KEY[1], name |-> e.NAME]

IsComplete(e) == Truthy(e.TYPE) /\ Truthy(e.URL) /\ Truthy(e.API_KEY)

\* _collect_numbered_instances scanning every index, gaps included.
_collect_numbered_instances_past_gaps(env) ==
    LET complete == {i \in DOMAIN env.ARR : IsComplete(env.ARR[i])}
        RECURSIVE Sorted(_)
        Sorted(S) == IF S = {} THEN <<>>
                     ELSE LET m == CHOOSE x \in S : \A y \in S : x <= y
                          IN  <<ArrInstanceConfig(env.ARR[m])>> \o Sorted(S \ {m})
    IN  Sorted(complete)

\* The while loop of _collect_numbered_instances from index idx on.
RECURSIVE collect_from(_, _, _)
collect_from(env, idx, instances) ==
    IF IsComplete(env_get(env, idx))
    THEN collect_from(env, idx + 1, Append(instances, ArrInstanceConfig(env_get(env, idx))))
    ELSE instances

_collect_numbered_instances(env) == collect_from(env, 1, <<>>)

\* get_config: the settings with the numbered instances, or the ValueError.
get_config(env) ==
    IF _collect_numbered_instances(env) = <<>>
    THEN [error |-> Some("No Arr instances configured"), dry_run |-> config_dry_run(env),
          arr_instances |-> <<>>]
    ELSE [error |-> None, dry_run |-> config_dry_run(env),
          arr_instances |-> _collect_numbered_instances(env)]

\* An environment that configures the given instances and dry-run mode.
EnvironOf(dry, types) ==
    [ARREM_DRY_RUN |-> IF dry THEN None ELSE Some("false"),
     ARR |-> [i \in 1..Len(types) |-> CompleteInstance(i, types[i], None)]]

\* Nothing probed or requested yet by an instance's sync_all_tags.
NoRequests ==
    [arr_probe |-> "", emby_probe |-> "", listing |-> 0, items |-> 0, tags |-> 0, writes |-> 0,
     raised |-> ""]

Init ==
    /\ dry_run \in BOOLEAN
    /\ arr_type \in ArrConfigs
    /\ arr_tags_cache = [i \in Insts |-> None]
    /\ emby_client = EmbyClientInit
    /\ embyTags = embyInit
    /\ pc = "start"
    /\ inst = 0
    /\ remaining = MaxItems
    /\ arr_items = <<>>
    /\ pos = 0
    /\ stats = ZeroStats
    /\ overall_stats = ZeroOverall
    /\ last = NoCall
    /\ writes = 0
    /\ synced = [e \in EmbyIds |-> [i \in Insts |-> {}]]
    /\ requests = [i \in Insts |-> NoRequests]
    /\ connection_results = <<>>
    /\ probes = <<>>
    /\ fatal_error = None
    /\ exit_code = None
    /\ batch_size = DefaultBatchSize
    /\ options = NoFlags
    /\ environ = EnvironOf(dry_run, arr_type)
    /\ output = <<>>

\* The for loop of sync_all_instances moves to the next instance, or returns.
NextInstance ==
    /\ IF inst < Len(arr_type)
       THEN inst' = inst + 1 /\ pc' = "arr_probe"
       ELSE inst' = inst /\ pc' = "done"
    /\ pos' = 0
    /\ arr_items' = <<>>
    /\ stats' = ZeroStats

\* sync_all_instances giving up on the remaining instances once one raised.
InstanceFailed_aborting(e) ==
    /\ overall_stats' = instance_error(overall_stats, inst, arr_type[inst], e)
    /\ inst' = inst /\ pc' = "done"
    /\ pos' = 0
    /\ arr_items' = <<>>
    /\ stats' = ZeroStats

\* The instance's sync_all_tags raised e: sync_all_instances records it.
InstanceFailed(e) ==
    /\ overall_stats' = instance_error(overall_stats, inst, arr_type[inst], e)
    /\ NextInstance

\* The key of an Arr instance in the connection results: f"{arr_type}_{i}".
service_name(atype, i) == atype \o "_" \o ToString(i)

\* test_all_connections that stops probing at the first failed probe.
test_all_connections_until_failure(types, emby_ok, arr_ok) ==
    LET n == IF ~emby_ok THEN 0
             ELSE IF \E i \in 1..Len(types) : ~arr_ok[i]
                  THEN CHOOSE i \in 1..Len(types) :
                          ~arr_ok[i] /\ \A j \in 1..(i - 1) : arr_ok[j]
                  ELSE Len(types)
    IN  [results |-> [k \in 1..(n + 1) |->
                        IF k = 1 THEN <<"emby", emby_ok>>
                        ELSE <<service_name(types[k - 1], k - 1), arr_ok[k - 1]>>],
         probes |-> [k \in 1..(n + 1) |->
                        [service |-> k - 1,
                         ok |-> IF k = 1 THEN emby_ok ELSE arr_ok[k - 1]]]]

\* test_all_connections: the Emby probe, then the probe of every Arr client
\* in order; results is the returned dict as its <<key, status>> entries in
\* insertion order, probes the test_connection calls made and what each
\* returned (service 0 is Emby, service i the i-th Arr client).
test_all_connections(types, emby_ok, arr_ok) ==
    [results |-> [k \in 1..(Len(types) + 1) |->
                    IF k = 1 THEN <<"emby", emby_ok>>
                    ELSE <<service_name(types[k - 1], k - 1), arr_ok[k - 1]>>],
     probes |-> [k \in 1..(Len(types) + 1) |->
                    [service |-> k - 1,
                     ok |-> IF k = 1 THEN emby_ok ELSE arr_ok[k - 1]]]]

\* failed_connections naming only the first failed service.
failed_connections_first(results) ==
    LET failed == SelectSeq(results, LAMBDA r : ~r[2])
    IN  [k \in 1..(IF failed = <<>> THEN 0 ELSE 1) |-> failed[k][1]]

\* failed_connections: the names whose status is false, in the dict's order.
failed_connections(results) ==
    LET failed == SelectSeq(results, LAMBDA r : ~r[2])
    IN  [k \in 1..Len(failed) |-> failed[k][1]]

\* The start of sync_all_instances once test_all_connections returned t.
AfterConnectionTest(t) ==
    /\ connection_results' = t.results
    /\ probes' = t.probes
    /\ IF failed_connections(t.results) # <<>>
       THEN /\ fatal_error' = Some(failed_connections(t.results))
            /\ pc' = "raised"
            /\ UNCHANGED << overall_stats, inst >>
       ELSE /\ overall_stats' = ZeroOverall
            /\ inst' = 1
            /\ pc' = "arr_probe"
            /\ UNCHANGED fatal_error

\* sync_all_instances: test_all_connections, then either the fatal error or
\* the initial overall_stats and the first instance.
TestAllConnections ==
    /\ pc = "start"
    /\ \E emby_ok \in BOOLEAN, arr_ok \in [Insts -> BOOLEAN] :
          AfterConnectionTest(test_all_connections(arr_type, emby_ok, arr_ok))
    /\ UNCHANGED << dry_run, arr_type, batch_size, exit_code, arr_tags_cache, emby_client, embyTags,
                    remaining, arr_items, pos, stats, last, writes, synced, requests,
                    options, environ, output >>

\* sync_all_tags: arr_client.test_connection().
ArrProbe ==
    /\ pc = "arr_probe"
    /\ \E ok \in BOOLEAN :
          /\ requests' = [requests EXCEPT ![inst].arr_probe = IF ok THEN "ok" ELSE "failed",
                                          ![inst].raised = IF ok THEN "" ELSE "arr_probe"]
          /\ IF ok
             THEN pc' = "emby_probe" /\ UNCHANGED << inst, arr_items, pos, stats, overall_stats >>
             ELSE InstanceFailed("Failed to connect to arr")
    /\ UNCHANGED << setup, exit_code, arr_tags_cache, emby_client, embyTags,
                    remaining, last, writes, synced >>

\* The Emby probe of sync_all_tags with its result ignored.
EmbyProbe_ignoring_failure ==
    /\ pc = "emby_probe"
    /\ \E ok \in BOOLEAN :
          requests' = [requests EXCEPT ![inst].emby_probe = IF ok THEN "ok" ELSE "failed"]
    /\ pc' = "warm"
    /\ UNCHANGED << setup, exit_code, arr_tags_cache, emby_client, embyTags, inst,
                    remaining, arr_items, pos, stats, overall_stats, last, writes, synced >>

\* sync_all_tags: emby_client.test_connection().
EmbyProbe ==
    /\ pc = "emby_probe"
    /\ \E ok \in BOOLEAN :
          /\ requests' = [requests EXCEPT ![inst].emby_probe = IF ok THEN "ok" ELSE "failed",
                                          ![inst].raised = IF ok THEN "" ELSE "emby_probe"]
          /\ IF ok
             THEN pc' = "warm" /\ UNCHANGED << inst, arr_items, pos, stats, overall_stats >>
             ELSE InstanceFailed("Failed to connect to Emby server")
    /\ UNCHANGED << setup, exit_code, arr_tags_cache, emby_client, embyTags,
                    remaining, last, writes, synced >>

\* sync_all_tags going from the probes to the item fetch without the warm-up.
WarmCache_skipped ==
    /\ pc = "warm"
    /\ pc' = "fetch"
    /\ UNCHANGED << setup, exit_code, arr_tags_cache, emby_client, embyTags, inst, remaining,
                    arr_items, pos, stats, overall_stats, last, writes, synced, requests >>

\* sync_all_tags: _warm_emby_client_cache().
WarmCache ==
    /\ pc = "warm"
    /\ \E ok \in BOOLEAN :
          LET r == IF arr_type[inst] = "radarr"
                   THEN get_all_movies(emby_client, embyTags, ok)
                   ELSE get_all_series(emby_client, embyTags, ok)
          IN  /\ emby_client' = r.ec
              /\ requests' = [requests EXCEPT ![inst].listing =
                                  @ + ListingRequests(r.ec) - ListingRequests(emby_client),
                                              ![inst].raised = IF r.raised THEN "listing" ELSE ""]
              /\ IF r.raised
                 THEN InstanceFailed("listing")
                 ELSE /\ pc' = "fetch"
                      /\ UNCHANGED << inst, arr_items, pos, stats, overall_stats >>
    /\ UNCHANGED << setup, exit_code, arr_tags_cache, embyTags,
                    remaining, last, writes, synced >>

RECURSIVE Batches(_, _, _)
\* The batches arr_items[i : i + size] for i in range(i, len(arr_items), size),
\* one after the other; a negative step from 0 gives an empty range.
Batches(items, i, size) ==
    IF size < 0 \/ i >= Len(items) THEN <<>>
    ELSE SubSeq(items, i + 1, IF i + size < Len(items) THEN i + size ELSE Len(items))
         \o Batches(items, i + size, size)

\* The items the batch loop of sync_all_tags visits, in order; range() raises
\* ValueError for a step of 0.
batch_order(items, size) ==
    IF size = 0 THEN None ELSE Some(Batches(items, 0, size))

\* sync_all_tags: arr_client.get_all_items(), the initial statistics and the
\* start of the batch loop.
FetchItems ==
    /\ pc = "fetch"
    /\ \/ /\ requests' = [requests EXCEPT ![inst].items = @ + 1, ![inst].raised = "items"]
          /\ InstanceFailed("items")
          /\ UNCHANGED remaining
       \/ \E items \in ItemLists(remaining) :
             /\ remaining' = remaining - Len(items)
             /\ IF batch_order(items, batch_size) = None
                THEN /\ requests' = [requests EXCEPT ![inst].items = @ + 1,
                                                     ![inst].raised = "batch"]
                     /\ InstanceFailed("range() arg 3 must not be zero")
                ELSE /\ requests' = [requests EXCEPT ![inst].items = @ + 1]
                     /\ arr_items' = items
                     /\ stats' = [ZeroStats EXCEPT !.total_items = Len(items)]
                     /\ pos' = 0
                     /\ pc' = "items"
                     /\ UNCHANGED << inst, overall_stats >>
    /\ UNCHANGED << setup, exit_code, arr_tags_cache, emby_client, embyTags,
                    last, writes, synced >>

\* The tag-list responses an Arr instance may give: a failure or a list.
TagResponses == {None} \cup {Some(l) : l \in ArrTagLists}

\* Whether the listing the instance's lookups need is already cached.
ListingCached(ec, atype) ==
    IF item_type_of(atype) = "Movie" THEN ec.movies_cache # None ELSE ec.series_cache # None

\* Whether a call syncs the same Arr item, with the same labels and against
\* the same Emby item, as the call right before it, which added its tags.
Repeats(arr_item, res) ==
    /\ last.arr_item = Some(arr_item)
    /\ last.code = "updated"
    /\ last.posted
    /\ res.emby_id = last.emby_id
    /\ res.new_tags = last.new_tags

\* The bookkeeping of one iteration of the item loop, given what the call
\* sync_tags_for_item_structured(arr_item) returned and did (res).
BookItem(arr_item, fault, response, outcome, ok, res) ==
    \* each environment answer is drawn only where the call asks for it
    /\ (ListingCached(emby_client, arr_type[inst]) \/ fault # "none") => ok
    /\ (arr_tags_cache[inst] = res.cache) => response = None
    /\ ~res.posted => outcome = "ok"
    /\ emby_client' = res.ec
    /\ arr_tags_cache' = [arr_tags_cache EXCEPT ![inst] = res.cache]
    /\ embyTags' = res.server
    /\ writes' = writes + (IF res.posted THEN requests_sent("POST", outcome) ELSE 0)
    /\ requests' = [requests EXCEPT
                       ![inst].listing = @ + ListingRequests(res.ec) - ListingRequests(emby_client),
                       ![inst].tags = @ + (IF res.tags_requested THEN 1 ELSE 0),
                       ![inst].writes =
                           @ + (IF res.posted THEN requests_sent("POST", outcome) ELSE 0)]
    /\ stats' = record_result(stats, res, pos + 1)
    /\ last' = [inst |-> inst, item_no |-> pos + 1, arr_item |-> Some(arr_item),
                fault |-> fault, code |-> res.code, message |-> res.message,
                repeated |-> Repeats(arr_item, res), before |-> stats,
                lookups |-> res.lookups,
                emby_id |-> res.emby_id, new_tags |-> res.new_tags,
                current |-> res.current, payload |-> res.payload,
                called |-> res.called, posted |-> res.posted,
                tags_fetched |-> res.cache # arr_tags_cache[inst]]
    /\ synced' =
          IF res.code \in {"updated", "already_synced"}
          THEN [synced EXCEPT ![res.emby_id][inst] = @ \cup SeqToSet(res.new_tags)]
          ELSE synced

\* The iteration with one tag mapping shared by all sync services: the call
\* reads the first service's mapping.
SyncItem_shared_mapping ==
    /\ pc = "items"
    /\ pos < Len(batch_order(arr_items, batch_size)[1])
    /\ \E fault \in ItemFaults, response \in TagResponses, outcome \in PostOutcomes,
          ok \in BOOLEAN :
          BookItem(batch_order(arr_items, batch_size)[1][pos + 1], fault, response, outcome, ok,
                   sync_tags_for_item_structured(
                       emby_client, arr_tags_cache[1], embyTags, dry_run,
                       arr_type[inst], batch_order(arr_items, batch_size)[1][pos + 1],
                       fault, response, outcome, ok))
    /\ pos' = pos + 1
    /\ UNCHANGED << setup, exit_code, pc, inst, remaining, arr_items, overall_stats >>

\* One iteration of the item loop of sync_all_tags: the call
\* sync_tags_for_item_structured(arr_item) and the bookkeeping of its result.
SyncItem ==
    /\ pc = "items"
    /\ pos < Len(batch_order(arr_items, batch_size)[1])
    /\ \E fault \in ItemFaults, response \in TagResponses, outcome \in PostOutcomes,
          ok \in BOOLEAN :
          BookItem(batch_order(arr_items, batch_size)[1][pos + 1], fault, response, outcome, ok,
                   sync_tags_for_item_structured(
                       emby_client, arr_tags_cache[inst], embyTags, dry_run,
                       arr_type[inst], batch_order(arr_items, batch_size)[1][pos + 1],
                       fault, response, outcome, ok))
    /\ pos' = pos + 1
    /\ UNCHANGED << setup, exit_code, pc, inst, remaining, arr_items, overall_stats >>

\* sync_all_tags returns stats; sync_all_instances records and aggregates them.
ReturnStats ==
    /\ pc = "items"
    /\ pos = Len(batch_order(arr_items, batch_size)[1])
    /\ overall_stats' = aggregate(overall_stats, inst, arr_type[inst], stats)
    /\ NextInstance
    /\ UNCHANGED << setup, exit_code, arr_tags_cache, emby_client, embyTags,
                    remaining, last, writes, synced, requests >>

\* The status the sync command exits with: 1 when sync_all_instances raised
\* or reported failed syncs, else 0.
sync_exit_code(error, ov) ==
    IF error # None THEN 1
    ELSE IF ov.failed_syncs > 0 THEN 1 ELSE 0

\* The sync command after sync_all_instances returned or raised: sys.exit.
Exit ==
    /\ pc \in {"done", "raised"}
    /\ exit_code' = Some(sync_exit_code(fatal_error, overall_stats))
    /\ pc' = "exited"
    /\ UNCHANGED << setup, arr_tags_cache, emby_client, embyTags, inst, remaining,
                    arr_items, pos, stats, overall_stats, last, writes, synced, requests >>

Next ==
    \/ TestAllConnections
    \/ ArrProbe
    \/ EmbyProbe
    \/ WarmCache
    \/ FetchItems
    \/ SyncItem
    \/ ReturnStats
    \/ Exit

Spec == Init /\ [][Next]_vars

\* Runs of a single radarr instance, writing to Emby, with a larger item total
\* and any configured batch size.
InitBatch ==
    /\ dry_run = FALSE
    /\ arr_type = <<"radarr">>
    /\ arr_tags_cache = [i \in Insts |-> None]
    /\ emby_client = EmbyClientInit
    /\ embyTags = embyInit
    /\ pc = "start"
    /\ inst = 0
    /\ remaining = BatchItems
    /\ arr_items = <<>>
    /\ pos = 0
    /\ stats = ZeroStats
    /\ overall_stats = ZeroOverall
    /\ last = NoCall
    /\ writes = 0
    /\ synced = [e \in EmbyIds |-> [i \in Insts |-> {}]]
    /\ requests = [i \in Insts |-> NoRequests]
    /\ connection_results = <<>>
    /\ probes = <<>>
    /\ fatal_error = None
    /\ exit_code = None
    /\ batch_size \in BatchSizes
    /\ options = NoFlags
    /\ environ = EnvironOf(dry_run, arr_type)
    /\ output = <<>>

SpecBatch == InitBatch /\ [][Next]_vars

\* The program is one thread that takes its next step whenever it has one:
\* every loop runs over a finite list and every request has a timeout.
Fairness == WF_vars(Next)

SpecBatchFair == InitBatch /\ [][Next]_vars /\ Fairness

\* Runs against an Emby server that holds the two movies and no series.
InitEmpty ==
    /\ dry_run \in BOOLEAN
    /\ arr_type \in ArrConfigs
    /\ arr_tags_cache = [i \in Insts |-> None]
    /\ emby_client = EmbyClientInit
    /\ embyTags = [e \in {"e1", "e2"} |-> embyInit[e]]
    /\ pc = "start"
    /\ inst = 0
    /\ remaining = MaxItems
    /\ arr_items = <<>>
    /\ pos = 0
    /\ stats = ZeroStats
    /\ overall_stats = ZeroOverall
    /\ last = NoCall
    /\ writes = 0
    /\ synced = [e \in EmbyIds |-> [i \in Insts |-> {}]]
    /\ requests = [i \in Insts |-> NoRequests]
    /\ connection_results = <<>>
    /\ probes = <<>>
    /\ fatal_error = None
    /\ exit_code = None
    /\ batch_size = DefaultBatchSize
    /\ options = NoFlags
    /\ environ = EnvironOf(dry_run, arr_type)
    /\ output = <<>>

SpecEmpty == InitEmpty /\ [][Next]_vars

\* clear_all_caches: clear_caches of every sync service in turn (from service
\* i on), each on its own tag mapping and on the Emby client they share.
RECURSIVE clear_all_caches(_, _, _)
clear_all_caches(caches, ec, i) ==
    IF i > Len(caches) THEN [caches |-> caches, ec |-> ec]
    ELSE clear_all_caches([caches EXCEPT ![i] = clear_caches(caches[i], ec).cache],
                          clear_caches(caches[i], ec).ec, i + 1)

\* The caller clears all caches after sync_all_instances returned.
ClearAllCaches ==
    /\ pc = "done"
    /\ arr_tags_cache' = clear_all_caches(arr_tags_cache, emby_client, 1).caches
    /\ emby_client' = clear_all_caches(arr_tags_cache, emby_client, 1).ec
    /\ pc' = "cleared"
    /\ UNCHANGED << setup, exit_code, embyTags, inst, remaining, arr_items, pos, stats,
                    overall_stats, last, writes, synced, requests >>

\* Runs of the service used as a library: a sync, then the caches cleared.
NextClear == Next \/ ClearAllCaches

SpecClear == Init /\ [][NextClear]_vars

(***************************************************************************)
(* The command line: cli.py.                                               *)
(***************************************************************************)

\* Arr items a run started from the command line may return.
CliItems == 1

\* The arr_type of the client create_clients builds for each instance.
TypesOf(instances) == [i \in 1..Len(instances) |-> instances[i].type]

\* create_clients and MultiTagSyncService(arr_clients, emby_client, dry_run):
\* one ArrClient and one TagSyncService per configured instance.
CreateService(types, dry) ==
    /\ arr_type' = types
    /\ dry_run' = dry
    /\ arr_tags_cache' = [i \in 1..Len(types) |-> None]
    /\ synced' = [e \in EmbyIds |-> [i \in 1..Len(types) |-> {}]]
    /\ requests' = [i \in 1..Len(types) |-> NoRequests]

\* A command that ends in one of its except clauses: sys.exit(1).
CommandFailed ==
    /\ pc' = "aborted"
    /\ exit_code' = Some(1)
    /\ UNCHANGED << arr_type, dry_run, arr_tags_cache, synced, requests >>

\* The override of config.dry_run that lets the configured value win over
\* --no-dry-run.
effective_dry_run_ignoring_no_dry_run(opts, configured) ==
    IF opts.dry_run THEN TRUE ELSE configured

\* sync: config.dry_run after the override by the flags.
effective_dry_run(opts, configured) ==
    IF opts.dry_run THEN TRUE
    ELSE IF opts.no_dry_run THEN FALSE
    ELSE configured

\* sync, up to the call of sync_all_instances: the check of the flags,
\* get_config, the override of dry_run, create_clients and the service.
SyncCommand ==
    /\ pc = "cli"
    /\ IF options.dry_run /\ options.no_dry_run
       THEN CommandFailed
       ELSE IF get_config(environ).error # None
       THEN CommandFailed
       ELSE /\ CreateService(TypesOf(get_config(environ).arr_instances),
                             effective_dry_run(options, get_config(environ).dry_run))
            /\ pc' = "start"
            /\ UNCHANGED exit_code
    /\ UNCHANGED << batch_size, connection_results, probes, fatal_error, options, environ, output,
                    emby_client, embyTags, inst, remaining, arr_items, pos, stats,
                    overall_stats, last, writes >>

\* str.title() on the Arr types.
Title(s) ==
    CASE s = "radarr" -> "Radarr"
      [] s = "sonarr" -> "Sonarr"
      [] OTHER -> s

\* instance.name or f"{arr_type.title()} {i}"
instance_name(instance, i) ==
    IF Truthy(instance.name) THEN instance.name[1]
    ELSE Title(instance.type) \o " " \o ToString(i)

\* connection_results.get(key, False)
results_get(results, key) ==
    IF \E k \in 1..Len(results) : results[k][1] = key
    THEN results[CHOOSE k \in 1..Len(results) : results[k][1] = key][2]
    ELSE FALSE

\* The report of the test command that ends at the first failed line.
test_report_until_failure(instances, results) ==
    LET n == IF ~results_get(results, "emby") THEN 0
             ELSE IF \E i \in 1..Len(instances) :
                        ~results_get(results, service_name(instances[i].type, i))
                  THEN CHOOSE i \in 1..Len(instances) :
                          /\ ~results_get(results, service_name(instances[i].type, i))
                          /\ \A j \in 1..(i - 1) :
                                results_get(results, service_name(instances[j].type, j))
                  ELSE Len(instances)
    IN  [k \in 1..(n + 1) |->
            IF k = 1
            THEN [text |-> "Testing Emby connection", passed |-> results_get(results, "emby")]
            ELSE [text |-> "Testing " \o instance_name(instances[k - 1], k - 1)
                             \o " (" \o instances[k - 1].type \o ")",
                  passed |-> results_get(results, service_name(instances[k - 1].type, k - 1))]]

\* The result lines the test command prints: one for Emby, then one for each
\* Arr client in order, each marked Success or Failed.
test_report(instances, results) ==
    [k \in 1..(Len(instances) + 1) |->
        IF k = 1
        THEN [text |-> "Testing Emby connection", passed |-> results_get(results, "emby")]
        ELSE [text |-> "Testing " \o instance_name(instances[k - 1], k - 1)
                         \o " (" \o instances[k - 1].type \o ")",
              passed |-> results_get(results, service_name(instances[k - 1].type, k - 1))]]

\* all_successful of the test command, as its exit status.
test_exit_code(report) ==
    IF \A k \in 1..Len(report) : report[k].passed THEN 0 ELSE 1

\* The test command once test_all_connections returned t.
AfterTestAllConnections(instances, t) ==
    /\ connection_results' = t.results
    /\ probes' = t.probes
    /\ output' = test_report(instances, t.results)
    /\ exit_code' = Some(test_exit_code(test_report(instances, t.results)))

\* test: get_config, create_clients, the service with its default dry_run,
\* test_all_connections, the report and the exit status.
TestCommand ==
    /\ pc = "cli"
    /\ options = NoFlags
    /\ IF get_config(environ).error # None
       THEN CommandFailed /\ UNCHANGED << connection_results, probes, output >>
       ELSE /\ CreateService(TypesOf(get_config(environ).arr_instances), FALSE)
            /\ \E emby_ok \in BOOLEAN,
                  arr_ok \in [1..Len(get_config(environ).arr_instances) -> BOOLEAN] :
                  AfterTestAllConnections(
                      get_config(environ).arr_instances,
                      test_all_connections(TypesOf(get_config(environ).arr_instances),
                                           emby_ok, arr_ok))
            /\ pc' = "tested"
    /\ UNCHANGED << batch_size, fatal_error, options, environ,
                    emby_client, embyTags, inst, remaining, arr_items, pos, stats,
                    overall_stats, last, writes >>

\* The environments the command line may run in.
Environs ==
    {env \in [ARREM_DRY_RUN : DryRunEnvs,
              ARR : [1..MaxIndex -> UNION {InstanceEnvs(i) : i \in 1..MaxIndex}]] :
        \A i \in 1..MaxIndex : env.ARR[i] \in InstanceEnvs(i)}

\* The process before the command runs: no client and no service exists.
InitCli ==
    /\ options \in Options
    /\ environ \in Environs
    /\ dry_run = FALSE
    /\ arr_type = <<>>
    /\ arr_tags_cache = <<>>
    /\ emby_client = EmbyClientInit
    /\ embyTags = embyInit
    /\ pc = "cli"
    /\ inst = 0
    /\ remaining = CliItems
    /\ arr_items = <<>>
    /\ pos = 0
    /\ stats = ZeroStats
    /\ overall_stats = ZeroOverall
    /\ last = NoCall
    /\ writes = 0
    /\ synced = [e \in EmbyIds |-> <<>>]
    /\ requests = <<>>
    /\ connection_results = <<>>
    /\ probes = <<>>
    /\ fatal_error = None
    /\ exit_code = None
    /\ batch_size = DefaultBatchSize
    /\ output = <<>>

NextCli ==
    \/ SyncCommand
    \/ TestCommand
    \/ Next

SpecCli == InitCli /\ [][NextCli]_vars

(***************************************************************************)
(* Properties.                                                             *)
(***************************************************************************)

\* The Arr item of the latest per-item call.
LastItem == last.arr_item[1]

\* The latest per-item call has just been booked in stats: the loop is still
\* at that item of that instance.
JustBooked == pc = "items" /\ last.inst = inst /\ last.item_no = pos

\* The latest call matched an item, had tag IDs and resolved their labels.
LabelsResolved == last.code \in {"already_synced", "updated", "failed"}

\* C1 (additivity): whatever the instances, the item order, dry-run and the
\* answers to the update calls, no step of a run takes a tag name away from
\* any Emby item: every item's tag set after a step contains its tag set
\* before it, so the tags after any sequence of syncs contain the tags before.
C1_Additivity ==
    [][\A e \in EmbyIds : embyTags[e] \subseteq embyTags'[e]]_vars

\* A run that wrote to an item holding a user's tag, which it still holds.
C1_Witness ==
    /\ pc = "done"
    /\ writes > 0
    /\ embyTags["e1"] # embyInit["e1"]
    /\ "X" \in embyTags["e1"]

C3_Idempotence ==
    last.repeated => (last.code = "already_synced" /\ ~last.called /\ ~last.posted)

\* C4 (union convergence): with dry-run off, once sync_all_instances has gone
\* through the instances, every Emby item holds its prior tags plus the labels
\* of every instance's successful syncs of it, whatever the order of the
\* instances: no instance's sync removes a tag another one added.
C4_UnionConvergence ==
    (pc = "done" /\ ~dry_run) =>
        \A e \in EmbyIds :
            embyTags[e] = embyInit[e] \cup UNION {synced[e][i] : i \in Insts}

\* Two radarr instances hold the item with TMDb ID 1, the first with label
\* "B" and the second with label "A": the movie ends with its prior tag and both.
C4_Witness ==
    /\ pc = "done"
    /\ ~dry_run
    /\ Len(arr_type) = 2
    /\ synced["e1"][1] = {"B"}
    /\ synced["e1"][2] = {"A"}
    /\ embyTags["e1"] = {"X", "A", "B"}

\* A list of 3 items has gone through the item loop and the only failure is an
\* exception raised while matching item 2.
C5_Case ==
    /\ pc = "items"
    /\ Len(arr_items) = 3
    /\ pos = 3
    /\ stats.errors = << [item |-> 2, message |-> "Error: matching"] >>

CaughtAtLoop(errors) ==
    {k \in 1..Len(errors) : errors[k].message = "Unexpected error"}

C7_DryRunNoWrites ==
    dry_run =>
        /\ writes = 0
        /\ embyTags = embyInit
        /\ (LabelsResolved /\ ~(SeqToSet(last.new_tags) \subseteq last.current)) =>
              /\ last.code = "updated"
              /\ last.message = "Would add tags"
              /\ ~last.posted
              /\ JustBooked =>
                    stats = [last.before EXCEPT !.processed_items = @ + 1,
                                                !.successful_syncs = @ + 1]

\* A dry run reported an item with a missing label as updated.
C7_Witness ==
    /\ dry_run
    /\ JustBooked
    /\ last.code = "updated"
    /\ last.payload # <<>>
    /\ stats.successful_syncs = 1

\* The order of the providers.
ProviderRank(p) == CASE p = "Tmdb" -> 1 [] p = "Imdb" -> 2 [] p = "Tvdb" -> 3

\* The lookups an Arr item's IDs allow: absent IDs allow none.
ItemLookups(item) ==
    (IF item.tmdbId # 0 THEN {<<"Tmdb", ToString(item.tmdbId)>>} ELSE {})
    \cup (IF item.imdbId # "" THEN {<<"Imdb", item.imdbId>>} ELSE {})
    \cup (IF item.tvdbId # 0 THEN {<<"Tvdb", ToString(item.tvdbId)>>} ELSE {})

\* Whether the provider index holds, under that provider and ID, an item of
\* the kind the instance syncs.
IndexHit(lookup, atype) ==
    LET key == lookup[1] \o ":" \o lookup[2]
        cache == emby_client.provider_id_cache
    IN  /\ key \in DOMAIN cache
        /\ cache[key].Type = (IF atype = "radarr" THEN "Movie" ELSE "Series")

\* C8 (provider priority): the lookups of one find_matching_emby_item call are
\* made strictly in the order Tmdb, Imdb, Tvdb, only for IDs the item has; the
\* first lookup that hits ends the call and its item is returned, so an item
\* whose tmdbId hits is matched by it with no Imdb lookup made, and a call
\* ends without a match only after missing on every lookup it made.
C8_ProviderPriority ==
    (last.arr_item # None /\ last.fault = "none" /\ last.inst = inst /\ pc = "items") =>
        LET n == Len(last.lookups) IN
        /\ \A j, k \in 1..n : j < k =>
              ProviderRank(last.lookups[j][1]) < ProviderRank(last.lookups[k][1])
        /\ \A k \in 1..n : last.lookups[k] \in ItemLookups(LastItem)
        /\ \A k \in 1..n : IndexHit(last.lookups[k], arr_type[inst]) <=>
                              (k = n /\ last.emby_id # "")
        /\ last.emby_id # "" =>
              /\ n >= 1
              /\ emby_client.provider_id_cache[last.lookups[n][1] \o ":" \o last.lookups[n][2]].Id
                    = last.emby_id
        /\ (LastItem.tmdbId # 0 /\ IndexHit(<<"Tmdb", ToString(LastItem.tmdbId)>>, arr_type[inst])) =>
              last.lookups = << <<"Tmdb", ToString(LastItem.tmdbId)>> >>
        /\ (last.emby_id = "" /\ LastItem.tmdbId # 0 /\ LastItem.imdbId # "") =>
              /\ n >= 2
              /\ last.lookups[1][1] = "Tmdb"
              /\ last.lookups[2][1] = "Imdb"

\* A radarr item whose tmdbId is the first movie's and whose imdbId is the
\* second movie's: the first movie is returned after the Tmdb lookup alone.
C8_Witness ==
    /\ last.arr_item # None
    /\ LastItem.tmdbId = 1
    /\ LastItem.imdbId = "tt2"
    /\ arr_type[last.inst] = "radarr"
    /\ last.lookups = << <<"Tmdb", "1">> >>
    /\ last.emby_id = "e1"

\* The label resolve_tag_labels gives an ID under a mapping.
LabelOf(mapping, id) ==
    IF id \in DOMAIN mapping THEN mapping[id] ELSE "Unknown-" \o ToString(id)

\* C9 (resolve_tag_labels): the resolved labels are as many as the tag IDs,
\* the i-th being the Arr mapping's label of the i-th ID, or "Unknown-<id>"
\* for an ID the mapping lacks, in the order of the IDs; a matched item with
\* an unknown ID is synced like any other and ends in no error.
C9_ResolveTagLabels ==
    /\ resolve_tag_labels((1 :> "A") @@ (2 :> "B") @@ (3 :> "C"), <<3, 1, 2>>) = <<"C", "A", "B">>
    /\ resolve_tag_labels((1 :> "A"), <<1, 99>>) = <<"A", "Unknown-99">>
    /\ (LabelsResolved /\ arr_tags_cache[last.inst] # None) =>
          LET mapping == arr_tags_cache[last.inst][1]
              tag_ids == LastItem.tags
          IN  /\ Len(last.new_tags) = Len(tag_ids)
              /\ \A k \in 1..Len(tag_ids) : last.new_tags[k] = LabelOf(mapping, tag_ids[k])
    /\ (/\ last.arr_item # None
        /\ last.fault = "none"
        /\ last.emby_id # ""
        /\ LastItem.tags # <<>>
        /\ arr_tags_cache[last.inst] # None
        /\ last.inst = inst) => LabelsResolved

\* An item with the IDs 2 and 1 under a mapping that lacks 2 was updated with
\* "Unknown-2" and the label of 1, in that order.
C9_Witness ==
    /\ last.code = "updated"
    /\ last.new_tags = <<"Unknown-2", "B">>
    /\ last.payload = <<"Unknown-2", "B">>
    /\ LastItem.tags = <<2, 1>>

\* C10 (expected non-error outcomes): an item with no match in Emby, a matched
\* item with no tags, and a matched item whose labels are all present each
\* come back as a success and are booked as processed and under their own
\* counter alone: failed_syncs, errors and every other counter stay as before.
C10_NonErrorOutcomes ==
    /\ (last.arr_item # None /\ last.fault = "none") =>
          /\ (last.emby_id = "" <=> last.code = "not_in_emby")
          /\ (last.emby_id # "" /\ LastItem.tags = <<>>) => last.code = "no_tags"
          /\ (LabelsResolved /\ SeqToSet(last.new_tags) \subseteq last.current)
                => last.code = "already_synced"
    /\ JustBooked =>
          /\ last.code = "not_in_emby" =>
                stats = [last.before EXCEPT !.processed_items = @ + 1, !.not_in_emby = @ + 1]
          /\ last.code = "no_tags" =>
                stats = [last.before EXCEPT !.processed_items = @ + 1, !.no_tags_to_sync = @ + 1]
          /\ last.code = "already_synced" =>
                stats = [last.before EXCEPT !.processed_items = @ + 1, !.already_synced = @ + 1]

\* Three items of one instance ended not in Emby, without tags and up to date.
C10_Witness ==
    /\ JustBooked
    /\ pos = 3
    /\ stats.processed_items = 3
    /\ stats.not_in_emby = 1
    /\ stats.no_tags_to_sync = 1
    /\ stats.already_synced = 1
    /\ stats.failed_syncs = 0
    /\ stats.errors = <<>>

\* C11 (probe failure is fatal to sync_all_tags): when the Arr probe or the
\* Emby probe of an instance's sync_all_tags returned false, the call raised:
\* the instance has an error record in place of statistics, and the call sent
\* no listing request, no item request, no tag request and no tag-add request;
\* after a failed Arr probe the Emby probe was not made either.
C11_ProbeFailureIsFatal ==
    \A i \in Insts :
        (requests[i].arr_probe = "failed" \/ requests[i].emby_probe = "failed") =>
            /\ Len(overall_stats.instance_results) >= i
            /\ overall_stats.instance_results[i].instance_number = i
            /\ overall_stats.instance_results[i].stats =
                  [error |-> IF requests[i].arr_probe = "failed"
                             THEN "Failed to connect to arr"
                             ELSE "Failed to connect to Emby server"]
            /\ requests[i].arr_probe = "failed" => requests[i].emby_probe = ""
            /\ requests[i].listing = 0
            /\ requests[i].items = 0
            /\ requests[i].tags = 0
            /\ requests[i].writes = 0

\* The first instance's Arr probe failed and the second instance's Emby probe.
C11_Witness ==
    /\ pc = "done"
    /\ Len(arr_type) = 2
    /\ requests[1].arr_probe = "failed"
    /\ requests[2].arr_probe = "ok"
    /\ requests[2].emby_probe = "failed"

\* The name sync_all_instances reports a probed service under.
ProbedName(service) ==
    IF service = 0 THEN "emby" ELSE service_name(arr_type[service], service)

\* C12: when the Emby probe or any Arr probe of test_all_connections fails,
\* sync_all_instances raises an error naming exactly the failed services and
\* starts no instance's sync: no probe of sync_all_tags, no listing, item or
\* tag request, no item processed and nothing written, also for the
\* instances whose own probe succeeded.
C12_FatalConnectionFailure ==
    (\E k \in 1..Len(probes) : ~probes[k].ok) =>
        /\ pc \in {"raised", "exited"}
        /\ fatal_error # None
        /\ SeqToSet(fatal_error[1]) =
              {ProbedName(probes[k].service) : k \in {j \in 1..Len(probes) : ~probes[j].ok}}
        /\ inst = 0
        /\ \A i \in Insts : requests[i] = NoRequests
        /\ last = NoCall
        /\ overall_stats = ZeroOverall
        /\ writes = 0
        /\ embyTags = embyInit
        /\ emby_client = EmbyClientInit

\* Emby and the second instance fail their probes, the first instance
\* answers its own: the run has raised naming the two of them.
C12_Witness ==
    /\ pc = "raised"
    /\ Len(probes) = 3
    /\ ~probes[1].ok /\ probes[2].ok /\ ~probes[3].ok
    /\ fatal_error = Some(<<"emby", service_name(arr_type[2], 2)>>)

\* The status the returned mapping holds under a key, as a set (empty when
\* the key is absent).
StatusOf(key) ==
    {connection_results[k][2] : k \in {j \in 1..Len(connection_results) : connection_results[j][1] = key}}

\* C16: test_all_connections probes Emby once and then every Arr instance
\* once, whatever the earlier probes returned, and the mapping it returns
\* has exactly the key "emby" and one key "<arr_type>_<i>" per instance
\* (i from 1), each holding what that service's probe returned.
C16_TestAllConnections ==
    pc # "start" =>
        /\ Len(probes) = Len(arr_type) + 1
        /\ \A k \in 1..Len(probes) : probes[k].service = k - 1
        /\ Len(connection_results) = Len(arr_type) + 1
        /\ {connection_results[k][1] : k \in 1..Len(connection_results)} =
              {"emby"} \cup {arr_type[i] \o "_" \o ToString(i) : i \in Insts}
        /\ StatusOf("emby") = {probes[1].ok}
        /\ \A i \in Insts :
              StatusOf(arr_type[i] \o "_" \o ToString(i)) = {probes[i + 1].ok}

\* The Emby probe failed and the two instances were still probed: the first
\* one answered, the second did not.
C16_Witness ==
    /\ arr_type = <<"radarr", "sonarr">>
    /\ connection_results = << <<"emby", FALSE>>, <<"radarr_1", TRUE>>, <<"sonarr_2", FALSE>> >>
    /\ Len(probes) = 3

\* The message of the exception sync_all_tags raises at a step.
RaisedMessage(step) ==
    CASE step = "arr_probe"  -> "Failed to connect to arr"
      [] step = "emby_probe" -> "Failed to connect to Emby server"
      [] step = "listing"    -> "listing"
      [] step = "items"      -> "items"
      [] step = "batch"      -> "range() arg 3 must not be zero"

\* C13: when an exception escapes instance i's sync_all_tags (a probe, the
\* listing fetch or the item fetch failed), sync_all_instances does not
\* raise; it records the i-th result with stats {error: message}, moves on,
\* and by its return every later instance's sync was started and has its
\* own result.
C13_InstanceFailureIsolated ==
    \A i \in Insts :
        requests[i].raised # "" =>
            /\ pc # "raised" /\ fatal_error = None
            /\ Len(overall_stats.instance_results) >= i
            /\ overall_stats.instance_results[i] =
                  [instance_number |-> i, arr_type |-> arr_type[i],
                   stats |-> [error |-> RaisedMessage(requests[i].raised)]]
            /\ inst > i \/ (i = Len(arr_type) /\ pc \in {"done", "exited"})
            /\ pc \in {"done", "exited"} =>
                  /\ Len(overall_stats.instance_results) = Len(arr_type)
                  /\ \A j \in Insts :
                        j > i => /\ requests[j].arr_probe # ""
                                 /\ overall_stats.instance_results[j].instance_number = j

\* The first instance's listing fetch failed; the second instance was synced
\* and returned statistics with a processed item.
C13_Witness ==
    /\ pc = "done"
    /\ requests[1].raised = "listing"
    /\ requests[2].raised = ""
    /\ Len(overall_stats.instance_results) = 2
    /\ overall_stats.instance_results[1].stats = [error |-> "listing"]
    /\ overall_stats.instance_results[2].stats.processed_items >= 1

\* The counters sync_all_instances aggregates.
Counters ==
    {"total_items", "processed_items", "successful_syncs", "failed_syncs",
     "not_in_emby", "already_synced", "no_tags_to_sync"}

\* Whether an instance result holds statistics (and not an error record).
HasStatistics(result) == DOMAIN result.stats = DOMAIN ZeroStats

RECURSIVE SumOfCounter(_, _)
\* The sum of a counter over the instance results that hold statistics.
SumOfCounter(results, c) ==
    IF results = <<>> THEN 0
    ELSE (IF HasStatistics(Head(results)) THEN Head(results).stats[c] ELSE 0)
         + SumOfCounter(Tail(results), c)

RECURSIVE ErrorsOfStatistics(_)
\* The errors sequences of the instance results that hold statistics, one
\* after the other in instance order.
ErrorsOfStatistics(results) ==
    IF results = <<>> THEN <<>>
    ELSE (IF HasStatistics(Head(results)) THEN Head(results).stats.errors ELSE <<>>)
         \o ErrorsOfStatistics(Tail(results))

RECURSIVE ErrorsOfResults(_)
\* The same, with the failure message of each instance whose sync raised in
\* that instance's place.
ErrorsOfResults(results) ==
    IF results = <<>> THEN <<>>
    ELSE (IF HasStatistics(Head(results)) THEN Head(results).stats.errors
          ELSE << [instance |-> Head(results).instance_number,
                   message |-> Head(results).stats.error] >>)
         \o ErrorsOfResults(Tail(results))

\* When sync_all_instances has returned.
Returned == pc \in {"done", "exited"} /\ fatal_error = None

\* C14 as stated: at return each overall counter is the sum of that counter
\* over the per-instance statistics and the overall errors are the instances'
\* errors sequences one after the other in instance order.
C14_AsStated ==
    Returned =>
        /\ \A c \in Counters : overall_stats[c] = SumOfCounter(overall_stats.instance_results, c)
        /\ overall_stats.errors = ErrorsOfStatistics(overall_stats.instance_results)

\* C14: at return each overall counter is the sum of that counter over the
\* statistics of the instances that returned some, and the overall errors
\* are, in instance order, each instance's errors sequence or, for an
\* instance whose sync raised, the one message of that failure.
C14_Aggregation ==
    Returned =>
        /\ \A c \in Counters : overall_stats[c] = SumOfCounter(overall_stats.instance_results, c)
        /\ overall_stats.errors = ErrorsOfResults(overall_stats.instance_results)

\* The first instance's sync raised and the second returned statistics with
\* a failed item: the overall errors hold the two messages in that order.
C14_Witness ==
    /\ pc = "done"
    /\ Len(overall_stats.instance_results) = 2
    /\ ~HasStatistics(overall_stats.instance_results[1])
    /\ HasStatistics(overall_stats.instance_results[2])
    /\ Len(overall_stats.instance_results[2].stats.errors) = 1
    /\ Len(overall_stats.errors) = 2
    /\ overall_stats.errors[1] = [instance |-> 1, message |-> "items"]
    /\ overall_stats.failed_syncs = 1

\* Whether some sync failed during a run that completed: an item of some
\* instance failed, or some instance's whole sync raised.
SomeSyncFailed ==
    \E k \in 1..Len(overall_stats.instance_results) :
        \/ ~HasStatistics(overall_stats.instance_results[k])
        \/ /\ HasStatistics(overall_stats.instance_results[k])
           /\ overall_stats.instance_results[k].stats.failed_syncs > 0

\* C15: after a run that completed, the sync command exits with a non-zero
\* status when an item failed in any instance or an instance's whole sync
\* failed, and with status zero only when no sync failed.
C15_ExitStatus ==
    (pc = "exited" /\ fatal_error = None) =>
        /\ exit_code # None
        /\ SomeSyncFailed <=> exit_code[1] # 0

\* The part of C15 about items: a failed item in any instance gives a
\* non-zero status, and status zero means no item failed.
C15_ItemFailuresOnly ==
    (pc = "exited" /\ fatal_error = None) =>
        /\ exit_code # None
        /\ overall_stats.failed_syncs > 0 <=> exit_code[1] # 0

\* The providers, IDs and kinds find_item_by_provider_id is asked about.
LookupKeys == {<<"Tmdb", "1">>, <<"Tmdb", "2">>, <<"Imdb", "tt2">>, <<"Tvdb", "7">>, <<"Tvdb", "1">>}
LookupKinds == {"Movie", "Series", "movie", "series"}

\* Whether a lookup's result is nothing or an item of the requested kind.
OfKind(found, kind) == found # None => Lower(found[1].Type) = Lower(kind)

\* The Emby item with an Id.
EmbyItemOf(id) ==
    EmbyLibrary[CHOOSE k \in 1..Len(EmbyLibrary) : EmbyLibrary[k].Id = id]

\* C17: whatever the Emby client has indexed so far, in whichever order,
\* find_item_by_provider_id returns nothing or an item whose Type equals the
\* requested kind up to case; a key held by an item of the other kind gives
\* no match, and the item an instance matched is of the instance's kind.
\* The calls are evaluated on the new client and on the client after each
\* warm-up, the step that fills its caches.
C17_KindMatches ==
    /\ pc \in {"start", "fetch"} =>
          \A key \in LookupKeys, kind \in LookupKinds, ok \in BOOLEAN :
              OfKind(find_item_by_provider_id(emby_client, key[1], key[2], kind, embyTags, ok).item,
                     kind)
    /\ \A kind \in {"Movie", "Series"}, key \in DOMAIN emby_client.provider_id_cache :
          emby_client.provider_id_cache[key].Type # kind =>
              lookup_provider_id([raised |-> FALSE, fetched |-> FALSE, ec |-> emby_client],
                                 key, kind).item = None
    /\ (last.arr_item # None /\ last.emby_id # "") =>
          EmbyItemOf(last.emby_id).Type = item_type_of(arr_type[last.inst])

\* Movies were indexed before series.  A sonarr item's imdbId is the key of
\* a movie: that lookup gives no match and the item is matched to the series
\* by its tvdbId.
C17_Witness ==
    /\ arr_type = <<"radarr", "sonarr">>
    /\ last.inst = 2
    /\ "Imdb:tt2" \in DOMAIN emby_client.provider_id_cache
    /\ emby_client.provider_id_cache["Imdb:tt2"].Type = "Movie"
    /\ emby_client.provider_id_cache["Tmdb:1"].Type = "Series"
    /\ last.lookups = << <<"Tmdb", "9">>, <<"Imdb", "tt2">>, <<"Tvdb", "7">> >>
    /\ last.emby_id = "e3"

\* The cached listing of a kind.
ListingCache(ec, kind) == IF kind = "Movie" THEN ec.movies_cache ELSE ec.series_cache

\* C18: the shared Emby client gets at most one answered listing request per
\* kind, holds that kind's listing (an empty one too) exactly from then on,
\* and once a listing is held no step of any instance, warm-up or lookup,
\* sends another listing request of that kind.
C18_ListingFetchedOnce ==
    /\ [](\A kind \in {"Movie", "Series"} :
            /\ emby_client.fetched[kind] <= 1
            /\ emby_client.fetched[kind] = 1 <=> ListingCache(emby_client, kind) # None)
    /\ [][\A kind \in {"Movie", "Series"} :
            ListingCache(emby_client, kind) # None =>
                /\ emby_client'.requests[kind] = emby_client.requests[kind]
                /\ ListingCache(emby_client', kind) = ListingCache(emby_client, kind)]_vars

\* Two sonarr instances against a server without series: the first one's
\* warm-up got the empty listing, and after the second one's warm-up and a
\* lookup that found nothing it is still the only series request sent.
C18_Witness ==
    /\ arr_type = <<"sonarr", "sonarr">>
    /\ emby_client.series_cache = Some(<<>>)
    /\ requests[1].listing = 1
    /\ last.inst = 2
    /\ last.lookups # <<>>
    /\ last.code = "not_in_emby"
    /\ emby_client.requests.Series = 1

\* C19: once a TagSyncService holds its tag mapping (its first answered tag
\* request), no later item of that service sends another tag request or
\* changes the mapping, and the labels of every later item are resolved
\* with it.
C19_TagsFetchedOnce ==
    /\ []((LabelsResolved /\ ~last.tags_fetched) =>
            /\ arr_tags_cache[last.inst] # None
            /\ last.new_tags = resolve_tag_labels(arr_tags_cache[last.inst][1], LastItem.tags))
    /\ [][\A i \in Insts :
            arr_tags_cache[i] # None =>
                /\ arr_tags_cache'[i] = arr_tags_cache[i]
                /\ requests'[i].tags = requests[i].tags]_vars

\* The first item's tag request failed, the second item's was answered, and
\* the third item's labels were resolved with the mapping held since.
C19_Witness ==
    /\ last.item_no = 3
    /\ LabelsResolved
    /\ ~last.tags_fetched
    /\ requests[last.inst].tags = 2
    /\ arr_tags_cache[last.inst] # None
    /\ last.new_tags # <<>>

\* C20: whatever the configured batch size, the batch loop of sync_all_tags
\* visits exactly the fetched items in their order, so that every instance
\* that fetched its items returns statistics in which each of them is
\* counted once, the same run as with any other batch size.
C20_BatchSizeIrrelevant ==
    /\ pc = "items" => batch_order(arr_items, batch_size) = Some(arr_items)
    /\ \A i \in Insts : requests[i].raised # "batch"
    /\ \A k \in 1..Len(overall_stats.instance_results) :
          HasStatistics(overall_stats.instance_results[k]) =>
              overall_stats.instance_results[k].stats.total_items =
                  overall_stats.instance_results[k].stats.processed_items
                  + Len(SelectSeq(overall_stats.instance_results[k].stats.errors,
                                  LAMBDA e : e.message = "Unexpected error"))

\* The part of C20 that holds: with a positive batch size.
C20_PositiveBatchSize ==
    batch_size > 0 => C20_BatchSizeIrrelevant

\* The Arr type whose items are of a kind.
ArrTypeOf(kind) == IF kind = "Movie" THEN "radarr" ELSE "sonarr"

\* The caches of an Emby client.
CachesOf(ec) == << ec.movies_cache, ec.series_cache, ec.provider_id_cache >>

\* Whether an Arr item has an ID an instance of the type looks up.
HasLookup(atype, arr_item) == provider_attempts(atype, arr_item) # <<>>

\* The per-item sync of an item on the client as it stands, with the listing
\* request, if one is sent, failing.
SyncWithFailingListing(atype, arr_item) ==
    sync_tags_for_item_structured(emby_client, None, embyTags, dry_run, atype, arr_item,
                                  "none", None, "ok", FALSE)

\* The part of C21 about warm-up: the item fetch and the item loop of an
\* instance are reached only with its kind's listing held, and an instance
\* whose warm-up request failed has an error record and fetched no items.
WarmUpFailureAborts ==
    /\ pc \in {"fetch", "items"} => ListingCached(emby_client, arr_type[inst])
    /\ \A i \in Insts :
          requests[i].raised = "listing" =>
              /\ overall_stats.instance_results[i].stats = [error |-> "listing"]
              /\ requests[i].items = 0 /\ requests[i].tags = 0 /\ requests[i].writes = 0

\* C21 as stated: a failed listing request aborts the instance's sync when
\* the warm-up sent it, and when a lookup sent it the error leaves the
\* per-item sync instead of becoming a per-item result.
C21_AsStated ==
    /\ WarmUpFailureAborts
    /\ \A kind \in {"Movie", "Series"}, arr_item \in ArrItemPool :
          (ListingCache(emby_client, kind) = None /\ HasLookup(ArrTypeOf(kind), arr_item)) =>
              SyncWithFailingListing(ArrTypeOf(kind), arr_item).code = "raised"

\* C21: a failed listing request sent by the warm-up propagates and aborts
\* the instance's sync.  One sent by a lookup (the kind's listing is not held)
\* is caught by find_item_by_provider_id: the lookup gives no match, the
\* caches stay as they were, and the per-item sync returns the successful
\* result not_in_emby.  In a run of sync_all_tags no lookup sends one, the
\* warm-up having completed before the first item.
C21_ListingErrors ==
    /\ WarmUpFailureAborts
    /\ \A kind \in {"Movie", "Series"}, key \in LookupKeys :
          ListingCache(emby_client, kind) = None =>
              /\ find_item_by_provider_id(emby_client, key[1], key[2], kind, embyTags, FALSE).item
                    = None
              /\ CachesOf(find_item_by_provider_id(emby_client, key[1], key[2], kind,
                                                   embyTags, FALSE).ec) = CachesOf(emby_client)
    /\ \A kind \in {"Movie", "Series"}, arr_item \in ArrItemPool :
          (ListingCache(emby_client, kind) = None /\ HasLookup(ArrTypeOf(kind), arr_item)) =>
              /\ SyncWithFailingListing(ArrTypeOf(kind), arr_item).code = "not_in_emby"
              /\ SyncWithFailingListing(ArrTypeOf(kind), arr_item).success

\* The first instance's warm-up request failed and its sync was aborted; the
\* second, a radarr instance, holds the movie listing and is in its item
\* loop, while the series listing, not held, is what a lookup would request.
C21_Witness ==
    /\ requests[1].raised = "listing"
    /\ inst = 2 /\ pc = "items"
    /\ arr_type[2] = "radarr"
    /\ emby_client.movies_cache # None
    /\ emby_client.series_cache = None
    /\ SyncWithFailingListing("sonarr", [tmdbId |-> 9, imdbId |-> "tt2", tvdbId |-> 7,
                                          tags |-> <<3>>]).code = "not_in_emby"


\* The sync command got past its checks and built the service.
SyncStarted == pc \notin {"cli", "aborted", "tested"}

BothFlags == options.dry_run /\ options.no_dry_run

\* C22: the dry-run mode the sync command runs with is True with --dry-run,
\* False with --no-dry-run, and otherwise the configured value, which is True
\* when ARREM_DRY_RUN is unset; in that mode no tag is written.  With both
\* flags the command exits with status 1 and has created no client and sent
\* no request.
C22_EffectiveDryRun ==
    /\ SyncStarted =>
          /\ ~BothFlags
          /\ options.dry_run => dry_run
          /\ options.no_dry_run => ~dry_run
          /\ options = NoFlags => dry_run = config_dry_run(environ)
          /\ (options = NoFlags /\ environ.ARREM_DRY_RUN = None) => dry_run
          /\ (options = NoFlags /\ environ.ARREM_DRY_RUN = Some("false")) => ~dry_run
          /\ dry_run => writes = 0
    /\ BothFlags =>
          /\ pc \in {"cli", "aborted"}
          /\ pc = "aborted" =>
                /\ exit_code = Some(1)
                /\ arr_type = <<>>
                /\ probes = <<>> /\ requests = <<>> /\ writes = 0
                /\ emby_client = EmbyClientInit /\ embyTags = embyInit

\* --no-dry-run overrode a configured dry-run mode, and the run wrote a tag.
C22_Witness ==
    /\ options = [dry_run |-> FALSE, no_dry_run |-> TRUE]
    /\ environ.ARREM_DRY_RUN = Some(" On ")
    /\ ~dry_run
    /\ writes > 0

\* The largest k such that every index from 1 to k has TYPE, URL and API_KEY.
CompletePrefix(env) ==
    CHOOSE k \in 0..MaxIndex :
        /\ \A i \in 1..k : IsComplete(env.ARR[i])
        /\ k < MaxIndex => ~IsComplete(env.ARR[k + 1])

\* The command ran get_config and it raised.
ConfigFailed == pc = "aborted" /\ ~BothFlags

ExpectedLine(i) ==
    IF environ.ARR[i].NAME # None
    THEN "Testing " \o environ.ARR[i].NAME[1] \o " (" \o arr_type[i] \o ")"
    ELSE "Testing " \o Title(arr_type[i]) \o " " \o ToString(i) \o " (" \o arr_type[i] \o ")"

\* The test command has ended: after its probes, or in get_config.
TestEnded == pc = "tested" \/ (pc = "aborted" /\ options = NoFlags)

ListedWith(ec, kind, key) ==
    /\ ListingCache(ec, kind) # None
    /\ \E k \in 1..Len(ListingCache(ec, kind)[1]) :
          /\ key[1] \in DOMAIN ListingCache(ec, kind)[1][k].ProviderIds
          /\ ListingCache(ec, kind)[1][k].ProviderIds[key[1]] = key[2]

\* C25: on the client as every warm-up of a multi-instance run leaves it,
\* find_item_by_provider_id(provider, id, kind) returns an item whenever an
\* item of the cached listing of that kind carries that provider ID, also
\* when the listing of the other kind was indexed later.
C25_IndexedItemFound ==
    pc = "fetch" =>
        \A kind \in {"Movie", "Series"}, key \in LookupKeys :
            ListedWith(emby_client, kind, key) =>
                find_item_by_provider_id(emby_client, key[1], key[2], kind, embyTags, TRUE).item
                    # None

\* The steps of sync_all_tags, in the order of its code.
StepOrder ==
    {<<"arr_probe", "emby_probe">>, <<"emby_probe", "warm">>, <<"warm", "fetch">>,
     <<"fetch", "items">>}

\* Instance i's sync_all_tags has passed both probes and the warm-up.
Prepared(i) ==
    /\ requests[i].arr_probe = "ok"
    /\ requests[i].emby_probe = "ok"
    /\ ListingCached(emby_client, arr_type[i])

\* Instance i's sync_all_tags has ended.
Ended(i) == i < inst \/ pc \in {"done", "exited"}

\* What the steps of instance i so far have left, in the order of the code.
InOrder(i) ==
    /\ requests[i].emby_probe # "" => requests[i].arr_probe = "ok"
    /\ requests[i].listing > 0 => requests[i].emby_probe = "ok"
    /\ requests[i].items > 0 => Prepared(i)
    /\ (requests[i].tags > 0 \/ requests[i].writes > 0) =>
          Prepared(i) /\ requests[i].items = 1 /\ requests[i].raised = ""
    /\ (last.inst = i /\ last.arr_item # None) =>
          Prepared(i) /\ requests[i].items = 1 /\ requests[i].raised = ""
    /\ requests[i].raised # "" => Ended(i)

\* A step of the run that changes the position: the next step of the same
\* instance, or the end of the instance's sync_all_tags, with statistics after
\* the item loop and with the raised error before it.
StepInOrder ==
    (pc \in {"arr_probe", "emby_probe", "warm", "fetch", "items"} /\ pc' # pc) =>
        \/ inst' = inst /\ << pc, pc' >> \in StepOrder
        \/ /\ pc' \in {"arr_probe", "done"}
           /\ pc' = "arr_probe" <=> inst' = inst + 1
           /\ Len(overall_stats'.instance_results) = inst
           /\ HasStatistics(overall_stats'.instance_results[inst]) <=> pc = "items"
           /\ requests'[inst].raised # "" <=> pc # "items"

\* C26: the steps of every sync_all_tags run occur in the order Arr probe,
\* Emby probe, listing warm-up, item fetch, item processing; the run ends
\* with statistics after the item loop or with a raised error at an earlier
\* step; tags are requested or written and an item outcome is produced only
\* when both probes succeeded, the warm-up completed and the items were
\* fetched.
C26_StepOrder ==
    /\ [](\A i \in Insts : InOrder(i))
    /\ [][StepInOrder]_vars

\* The first instance raised at its Emby probe; the second went through
\* every step, wrote a tag and returned statistics.
C26_Witness ==
    /\ pc = "done"
    /\ requests[1].raised = "emby_probe"
    /\ requests[2].writes > 0
    /\ HasStatistics(overall_stats.instance_results[2])

\* sync_all_instances has returned or raised.
Terminated == pc \in {"done", "raised", "exited"}

\* The instances are taken one after the other in configured order.
VisitsInOrder == inst' # inst => (inst' = inst + 1 /\ pc' = "arr_probe")

\* At return there is one result per instance, in configured order.
OneResultEach ==
    (pc \in {"done", "exited"} /\ fatal_error = None) =>
        /\ inst = Len(arr_type)
        /\ Len(overall_stats.instance_results) = Len(arr_type)
        /\ \A i \in Insts : overall_stats.instance_results[i].instance_number = i

\* A per-item sync is a step of the item loop of the running instance and
\* takes the next item of the fetched list; the loop is left only when every
\* item of the list has been taken.
ItemsInOrder ==
    /\ last' # last =>
          /\ pc = "items" /\ pc' = "items" /\ inst' = inst /\ arr_items' = arr_items
          /\ pos < Len(arr_items) /\ pos' = pos + 1
          /\ last'.inst = inst /\ last'.item_no = pos + 1
          /\ last'.arr_item = Some(arr_items[pos + 1])
    /\ (pc = "items" /\ pos' # pos /\ pc' = "items") => last' # last
    /\ (pc = "items" /\ pc' # "items") => pos = Len(arr_items)

\* C27: sync_all_instances terminates; the instances are visited once each in
\* configured order; within an instance every item of the fetched list is
\* synced exactly once, in list order, one at a time, and never between the
\* steps of another item or instance.
C27_SequentialTermination ==
    /\ <>Terminated
    /\ []OneResultEach
    /\ [][VisitsInOrder /\ ItemsInOrder]_vars

\* The steps a run has left at most: the items still to take, then the steps
\* of the instance, then those of the instances to come.
StepsOfStage ==
    CASE pc = "start" -> 11
      [] pc = "arr_probe" -> 10
      [] pc = "emby_probe" -> 9
      [] pc = "warm" -> 8
      [] pc = "fetch" -> 7
      [] pc = "items" -> 2 + Len(batch_order(arr_items, batch_size)[1]) - pos
      [] pc \in {"done", "raised"} -> 1
      [] OTHER -> 0

StepsLeft == (Len(arr_type) - inst) * 20 + StepsOfStage

\* Whatever the batch size, every step of a run lowers the number of steps
\* left, which is never negative: no run takes infinitely many steps.
C27_StepsDecrease ==
    /\ [](StepsLeft >= 0)
    /\ [][StepsLeft' < StepsLeft]_vars

\* With a positive batch size the instances and the items are taken once
\* each, in order.
C27_PositiveBatchSize ==
    /\ [](batch_size > 0 => OneResultEach)
    /\ [][batch_size > 0 => (VisitsInOrder /\ ItemsInOrder)]_vars

\* The Emby item find_matching_emby_item gives for the item the loop takes
\* next, on the client and server as they are before the call.
NextMatch ==
    find_matching_emby_item(arr_type[inst], arr_items[pos + 1], emby_client, embyTags, TRUE).item

\* The step asked the Arr instance for no tags and left the mapping alone.
NoTagFetch == requests'[inst].tags = requests[inst].tags /\ arr_tags_cache' = arr_tags_cache

\* The step made no update call and changed no Emby tag.
NoUpdateCall == ~last'.called /\ ~last'.posted /\ writes' = writes /\ embyTags' = embyTags

\* The labels the step resolved for the item's tag IDs.
NextLabels == SeqToSet(resolve_tag_labels(arr_tags_cache'[inst][1], arr_items[pos + 1].tags))

\* C28: a per-item sync in which nothing raises decides its outcome in this
\* order: without an Emby match not_in_emby, whatever the item's tags, with
\* no Arr tag fetch and no update call; with a match and zero tag IDs no_tags,
\* again with no Arr tag fetch and no update call; with every resolved label
\* among the TagItems of the matched item already_synced, with no update
\* call; and only otherwise one update call, whose result gives updated or
\* failed.
C28_OutcomeOrder ==
    [][(last' # last /\ last'.code \notin {"error", "raised"}) =>
          /\ last'.arr_item = Some(arr_items[pos + 1])
          /\ IF NextMatch = None
             THEN last'.code = "not_in_emby" /\ NoTagFetch /\ NoUpdateCall
             ELSE IF arr_items[pos + 1].tags = <<>>
             THEN last'.code = "no_tags" /\ NoTagFetch /\ NoUpdateCall
             ELSE IF NextLabels \subseteq NextMatch[1].TagItems
             THEN last'.code = "already_synced" /\ NoUpdateCall
             ELSE /\ last'.called
                  /\ last'.code \in {"updated", "failed"}
                  /\ last'.code = "failed" => embyTags' = embyTags]_vars

\* A sonarr item without tag IDs that matches no series: not_in_emby.
C28_Witness ==
    /\ last.arr_item # None
    /\ LastItem.tags = <<>>
    /\ last.fault = "none"
    /\ last.code = "not_in_emby"

\* The counters of the successful outcomes.
SuccessCounters == {"successful_syncs", "already_synced", "not_in_emby", "no_tags_to_sync"}

\* C29: an update call that reports failure gives the unsuccessful result
\* failed, and an exception raised inside the per-item sync (in the matching
\* or in the Arr tag fetch) gives the unsuccessful result error; the loop
\* books either with failed_syncs one higher, exactly one more entry at the
\* end of errors, and every counter of a successful outcome unchanged.
C29_FailedAndError ==
    /\ (last.arr_item # None /\ last.fault = "match") => last.code = "error"
    /\ last.code = "failed" =>
          /\ last.called /\ last.posted /\ ~dry_run
          /\ last.message = "Failed to update tags in Emby"
    /\ last.code = "error" =>
          /\ ~last.called /\ ~last.posted
          /\ last.fault = "match" \/ (last.emby_id # "" /\ LastItem.tags # <<>>)
    /\ (JustBooked /\ last.code \in {"failed", "error"}) =>
          /\ stats.failed_syncs = last.before.failed_syncs + 1
          /\ stats.errors = Append(last.before.errors,
                                   [item |-> last.item_no, message |-> last.message])
          /\ \A c \in SuccessCounters : stats[c] = last.before[c]
          /\ stats.total_items = last.before.total_items

\* An instance whose first item raised in the matching and whose second
\* item's update call reported failure: two failed syncs, two errors.
C29_Witness ==
    /\ JustBooked
    /\ last.code = "failed"
    /\ stats.failed_syncs = 2
    /\ Len(stats.errors) = 2
    /\ stats.errors[1].message = "Error: matching"
    /\ stats.successful_syncs = 0

\* C30: a per-item sync makes at most one update call and the call sends at
\* most one tag-add POST, whatever the answer: the session sends a failed
\* GET again and a failed POST never.  A failed call is booked as the
\* failure of its item and the loop goes on to the next item, so an instance
\* has sent at most as many POSTs as it has taken items.
C30_NoWriteRetry ==
    /\ [](/\ \A o \in PostOutcomes : requests_sent("POST", o) = 1
          /\ requests_sent("GET", "error") = 1 + total_retries
          /\ pc = "items" => requests[inst].writes <= pos
          /\ \A i \in Insts : requests[i].writes <= MaxItems)
    /\ [][/\ writes' \in {writes, writes + 1}
          /\ writes' = writes + 1 =>
                /\ last' # last /\ last'.called /\ last'.posted
                /\ requests'[inst].writes = requests[inst].writes + 1
                /\ pos' = pos + 1
          /\ (last' # last /\ last'.code = "failed") =>
                /\ writes' = writes + 1
                /\ pos' = pos + 1
                /\ embyTags' = embyTags
                /\ stats'.failed_syncs = stats.failed_syncs + 1]_vars

\* The update call for the first item failed after one POST; the loop took
\* the second item, which needed no write.
C30_Witness ==
    /\ JustBooked
    /\ pos = 2
    /\ writes = 1
    /\ Len(stats.errors) = 1
    /\ stats.errors[1] = [item |-> 1, message |-> "Failed to update tags in Emby"]

\* The arr_type values an ArrClient may be built with, and items that carry
\* every combination of usable IDs.
MatchTypes == {"radarr", "sonarr", "lidarr"}
MatchItems ==
    [tmdbId : {0, 1}, imdbId : {"", "tt2"}, tvdbId : {0, 7}, tags : {<<>>}]

\* find_matching_emby_item on a client that has fetched nothing yet.
FirstMatch(atype, arr_item) ==
    find_matching_emby_item(atype, arr_item, EmbyClientInit, embyInit, TRUE)

\* What the lookups of a first match asked the client for: the listing of
\* one kind, fetched once, when there was a lookup, and nothing otherwise.
KindAsked(atype, arr_item, r) ==
    /\ r.lookups # <<>> =>
          r.ec.requests = IF atype = "radarr" THEN [Movie |-> 1, Series |-> 0]
                          ELSE [Movie |-> 0, Series |-> 1]
    /\ r.lookups = <<>> => (r.ec = EmbyClientInit /\ r.item = None)
    /\ r.item # None => r.item[1].Type = (IF atype = "radarr" THEN "Movie" ELSE "Series")
    /\ (\E k \in 1..Len(r.lookups) : r.lookups[k][1] = "Tvdb") =>
          (atype = "sonarr" /\ arr_item.tvdbId # 0)
    /\ r.lookups = <<>> <=>
          (arr_item.tmdbId = 0 /\ arr_item.imdbId = ""
           /\ (atype # "sonarr" \/ arr_item.tvdbId = 0))

\* C31: every lookup of find_matching_emby_item asks for Movie when the
\* instance is radarr and for Series for any other type; a Tvdb lookup is
\* made only for a sonarr instance whose item has a tvdbId, so a radarr
\* item's tvdbId is never looked up; an item without a usable ID causes no
\* lookup and no listing fetch and is not matched.
C31_KindAndCandidates ==
    /\ pc = "start" =>
          \A atype \in MatchTypes, arr_item \in MatchItems :
              KindAsked(atype, arr_item, FirstMatch(atype, arr_item))
    /\ pc = "start" =>
          FirstMatch("radarr", [tmdbId |-> 0, imdbId |-> "", tvdbId |-> 7, tags |-> <<>>]).item
              = None
    /\ (last.arr_item # None /\ last.fault = "none") =>
          /\ arr_type[last.inst] = "radarr" =>
                \A k \in 1..Len(last.lookups) : last.lookups[k][1] # "Tvdb"
          /\ last.emby_id # "" =>
                EmbyItemOf(last.emby_id).Type = item_type_of(arr_type[last.inst])
          /\ (LastItem.tmdbId = 0 /\ LastItem.imdbId = ""
              /\ (arr_type[last.inst] = "radarr" \/ LastItem.tvdbId = 0)) =>
                (last.lookups = <<>> /\ last.code = "not_in_emby")

\* A radarr item with a tvdbId that a series carries: it was looked up by
\* Tmdb and Imdb only and matched a movie.
C31_Witness ==
    /\ last.arr_item # None
    /\ arr_type[last.inst] = "radarr"
    /\ LastItem.tvdbId = 7
    /\ last.lookups = << <<"Tmdb", "9">>, <<"Imdb", "tt2">> >>
    /\ last.emby_id = "e2"

\* Lists of up to three items a listing may hold, a second movie with the
\* first movie's TMDb ID among them.
IndexedItems ==
    SeqToSet(EmbyLibrary)
        \cup {[Id |-> "e4", Type |-> "Movie", ProviderIds |-> [Tmdb |-> "1", Imdb |-> "tt4"]]}
IndexedLists == UNION {[1..n -> IndexedItems] : n \in 0..3}

\* The positions of a list whose item carries the key, and the last of them.
Carrying(items, key) == {k \in 1..Len(items) : key \in ItemKeys(items[k])}
LastCarrying(items, key) ==
    items[CHOOSE k \in Carrying(items, key) : \A j \in Carrying(items, key) : j <= k]

\* The index holds, for exactly the keys the items carry, the last item of
\* the list that carries the key.
IndexOfLast(cache, items) ==
    /\ DOMAIN cache = UNION {ItemKeys(items[k]) : k \in 1..Len(items)}
    /\ \A key \in DOMAIN cache : cache[key] = LastCarrying(items, key)

\* The listings the client has cached, in the order it indexed them: an
\* instance fetches the listing of its own kind only, and the first instance
\* runs first.
IndexedInOrder(ec) ==
    LET first == item_type_of(arr_type[1])
        other == IF first = "Movie" THEN "Series" ELSE "Movie"
    IN  (IF ListingCache(ec, first) = None THEN <<>> ELSE ListingCache(ec, first)[1])
        \o (IF ListingCache(ec, other) = None THEN <<>> ELSE ListingCache(ec, other)[1])

\* What C32 says of one state of a run.
IndexHoldsLastItems ==
    /\ pc = "start" =>
          \A items \in IndexedLists :
              /\ IndexOfLast(_build_provider_id_cache(<<>>, items), items)
              /\ \A n \in 0..Len(items) :
                    _build_provider_id_cache(
                        _build_provider_id_cache(<<>>, SubSeq(items, 1, n)),
                        SubSeq(items, n + 1, Len(items)))
                      = _build_provider_id_cache(<<>>, items)
    /\ IndexOfLast(emby_client.provider_id_cache, IndexedInOrder(emby_client))
    /\ pc \in {"done", "raised"} =>
          \A key \in DOMAIN emby_client.provider_id_cache, kind \in {"Movie", "Series"} :
              LET found == lookup_provider_id(
                               [raised |-> FALSE, fetched |-> FALSE, ec |-> emby_client],
                               key, kind).item
              IN  found # None =>
                      found[1] = LastCarrying(IndexedInOrder(emby_client), key)

\* C32: the provider index holds one item per "provider:id" key; when
\* several indexed items carry a key, the entry is the item indexed last (the
\* later item of a listing, or the item of the listing indexed later), and a
\* lookup by that key returns that item or nothing, never an earlier one.
C32_LastIndexedWins == []IndexHoldsLastItems

\* Both listings are indexed, the movies first: the key the first movie and
\* the series share holds the series.
C32_Witness ==
    /\ emby_client.movies_cache # None
    /\ emby_client.series_cache # None
    /\ arr_type[1] = "radarr"
    /\ Cardinality(Carrying(IndexedInOrder(emby_client), "Tmdb:1")) = 2
    /\ emby_client.provider_id_cache["Tmdb:1"].Id = "e3"

\* The caches are in the state they have before anything was fetched.
Unbuilt(caches, ec) ==
    /\ \A i \in DOMAIN caches : caches[i] = None
    /\ ec.movies_cache = None
    /\ ec.series_cache = None
    /\ ec.provider_id_cache = <<>>

\* A find_item_by_provider_id call sends one request for the listing of its
\* kind and caches what the server holds now.
LookupFetches(ec, server, key, kind) ==
    /\ find_item_by_provider_id(ec, key[1], key[2], kind, server, TRUE).ec.requests[kind]
          = ec.requests[kind] + 1
    /\ ListingCache(find_item_by_provider_id(ec, key[1], key[2], kind, server, TRUE).ec, kind)
          = Some(EmbyListing(kind, server))
    /\ find_item_by_provider_id(ec, key[1], key[2], kind, server, FALSE).ec.requests[kind]
          = ec.requests[kind] + 1

\* C33: clear_caches (and clear_all_caches, which calls it once per instance
\* on the shared Emby client) leaves every tag mapping, both listing caches
\* and the provider-ID index unbuilt; the next get_arr_tags_mapping and the
\* next lookup of either kind each send a fresh request; clearing again, any
\* number of times, changes nothing more.
C33_ClearCaches ==
    /\ pc = "done" =>
          /\ clear_cache(clear_cache(emby_client)) = clear_cache(emby_client)
          /\ clear_all_caches(arr_tags_cache, emby_client, 1)
                = [caches |-> [i \in Insts |-> None], ec |-> clear_cache(emby_client)]
          /\ \A i \in Insts :
                clear_caches(clear_caches(arr_tags_cache[i], emby_client).cache,
                             clear_caches(arr_tags_cache[i], emby_client).ec)
                  = clear_caches(arr_tags_cache[i], emby_client)
    /\ pc = "cleared" =>
          /\ Unbuilt(arr_tags_cache, emby_client)
          /\ clear_all_caches(arr_tags_cache, emby_client, 1)
                = [caches |-> arr_tags_cache, ec |-> emby_client]
          /\ \A i \in Insts, response \in TagResponses :
                get_arr_tags_mapping(arr_tags_cache[i], response).fetched
          /\ \A kind \in {"Movie", "Series"}, key \in LookupKeys :
                LookupFetches(emby_client, embyTags, key, kind)

\* The caches were cleared after a run that had fetched both listings and
\* both instances' tag lists.
C33_Witness ==
    /\ pc = "cleared"
    /\ emby_client.fetched.Movie > 0
    /\ emby_client.fetched.Series > 0
    /\ \A i \in Insts : requests[i].tags > 0
    /\ Unbuilt(arr_tags_cache, emby_client)

\* The entries of a statistics record's errors that the except branch of the
\* item loop wrote (the sync call raised), and those written for a returned
\* unsuccessful result.
RaisedErrors(st) ==
    {k \in 1..Len(st.errors) : st.errors[k].message = "Unexpected error"}
ReturnedErrors(st) == (1..Len(st.errors)) \ RaisedErrors(st)

\* The balance of a statistics record while the item loop runs.
Balanced(st) ==
    /\ st.processed_items
          = st.successful_syncs + st.already_synced + st.no_tags_to_sync + st.not_in_emby
            + Cardinality(ReturnedErrors(st))
    /\ st.failed_syncs = Len(st.errors)
    /\ st.processed_items <= st.total_items

\* The balance of the statistics sync_all_tags returns.
BalancedAtReturn(st) ==
    /\ Balanced(st)
    /\ st.processed_items + Cardinality(RaisedErrors(st)) = st.total_items

\* The statistics sync_all_tags has returned so far in this run.
ReturnedStatistics ==
    {overall_stats.instance_results[k].stats : k \in
        {j \in 1..Len(overall_stats.instance_results) :
            HasStatistics(overall_stats.instance_results[j])}}

\* C34: while the item loop of sync_all_tags runs, processed_items is the
\* sum of the four success counters and the unsuccessful results returned,
\* failed_syncs is the length of errors and processed_items is at most
\* total_items; the statistics returned have processed_items plus the number
\* of items whose sync call raised equal to total_items.
C34_Accounting ==
    /\ pc = "items" => Balanced(stats)
    /\ \A st \in ReturnedStatistics : BalancedAtReturn(st)

\* C34 for a positive batch size.
C34_PositiveBatchSize == batch_size > 0 => C34_Accounting

\* C34 without its last part: the balance holds for every batch size in
\* every state, the returned statistics included.
C34_Balance ==
    /\ pc = "items" => Balanced(stats)
    /\ \A st \in ReturnedStatistics : Balanced(st)

\* Statistics returned after one sync call raised, one returned a failure
\* and one succeeded.
C34_Witness ==
    \E st \in ReturnedStatistics :
        /\ st.total_items = 3
        /\ Cardinality(RaisedErrors(st)) = 1
        /\ Cardinality(ReturnedErrors(st)) = 1
        /\ st.processed_items = 2

\* The positions of the instance results that hold an error object.
FailedInstances(results) == {k \in 1..Len(results) : ~HasStatistics(results[k])}

\* An instance result holds statistics or an error object, nothing else.
StatisticsOrError(result) ==
    HasStatistics(result) \/ DOMAIN result.stats = {"error"}

\* The step in which sync_all_instances records an instance with an error.
RecordsError ==
    /\ Len(overall_stats'.instance_results) = Len(overall_stats.instance_results) + 1
    /\ ~HasStatistics(overall_stats'.instance_results[Len(overall_stats'.instance_results)])

\* C35: at return instance_results holds one record per configured instance,
\* the k-th with instance_number k and that instance's arr_type, each with
\* statistics or with an error object; the step that records an instance
\* with an error changes no overall counter and appends one message to the
\* overall errors; so the overall errors are as many as the overall
\* failed_syncs plus the instances recorded with an error.
C35_InstanceResults ==
    /\ [](/\ Returned =>
                /\ Len(overall_stats.instance_results) = Len(arr_type)
                /\ overall_stats.total_instances = Len(arr_type)
          /\ \A k \in 1..Len(overall_stats.instance_results) :
                /\ overall_stats.instance_results[k].instance_number = k
                /\ overall_stats.instance_results[k].arr_type = arr_type[k]
                /\ StatisticsOrError(overall_stats.instance_results[k])
          /\ Len(overall_stats.errors)
                = overall_stats.failed_syncs
                  + Cardinality(FailedInstances(overall_stats.instance_results)))
    /\ [][RecordsError =>
            /\ \A c \in Counters : overall_stats'[c] = overall_stats[c]
            /\ Len(overall_stats'.errors) = Len(overall_stats.errors) + 1
            /\ SubSeq(overall_stats'.errors, 1, Len(overall_stats.errors)) = overall_stats.errors
            /\ overall_stats'.errors[Len(overall_stats'.errors)].instance = inst]_vars

\* The first instance returned statistics with one failed item out of two,
\* the second was recorded with an error: two overall errors, one failed
\* sync, and the overall total is the first instance's.
C35_Witness ==
    /\ pc = "done"
    /\ Len(overall_stats.instance_results) = 2
    /\ HasStatistics(overall_stats.instance_results[1])
    /\ overall_stats.instance_results[1].stats.total_items = 2
    /\ overall_stats.instance_results[1].stats.failed_syncs = 1
    /\ FailedInstances(overall_stats.instance_results) = {2}
    /\ overall_stats.total_items = 2
    /\ overall_stats.failed_syncs = 1
    /\ Len(overall_stats.errors) = 2

\* Every item of the listings the client has cached carries the tags the
\* Emby item had before the run.
CachedTagsArePreRun(ec) ==
    \A kind \in {"Movie", "Series"} :
        ListingCache(ec, kind) # None =>
            \A k \in 1..Len(ListingCache(ec, kind)[1]) :
                ListingCache(ec, kind)[1][k].TagItems
                    = embyInit[ListingCache(ec, kind)[1][k].Id]

\* The step is an iteration of the item loop whose call sent a tag add.
TagAddStep == pc = "items" /\ pos' = pos + 1 /\ last'.posted

\* C36: update_item_tags changes none of the Emby client's caches: the
\* step of a sync that sent a tag add leaves the client as it was; the cached
\* items keep the tags fetched at warm-up, which are the tags from before
\* the run, whatever has been written since; and every sync that reaches the
\* tag comparison, from whichever instance, takes the pre-run tags as the
\* current tags and sends the labels missing from those.
C36_CachesNotRefreshed ==
    /\ [](/\ CachedTagsArePreRun(emby_client)
          /\ \A key \in DOMAIN emby_client.provider_id_cache :
                emby_client.provider_id_cache[key].TagItems
                    = embyInit[emby_client.provider_id_cache[key].Id]
          /\ last.code \in {"updated", "failed", "already_synced"} =>
                /\ last.current = embyInit[last.emby_id]
                /\ last.called =>
                      last.payload = missing_tags_of(last.new_tags, embyInit[last.emby_id]))
    /\ [][TagAddStep => emby_client' = emby_client]_vars

\* The second instance's sync matched an Emby item the first instance had
\* added a tag to, and sent that tag again.
C36_Witness ==
    /\ ~dry_run
    /\ last.inst = 2
    /\ last.posted
    /\ last.code = "updated"
    /\ synced[last.emby_id][1] \cap SeqToSet(last.payload) # {}
    /\ synced[last.emby_id][1] \cap SeqToSet(last.payload) \cap embyInit[last.emby_id] = {}
    /\ last.current = embyInit[last.emby_id]

\* The labels of the last item's tag IDs that its instance's mapping lacks.
SentinelLabels ==
    {"Unknown-" \o ToString(LastItem.tags[k]) :
        k \in {j \in 1..Len(LastItem.tags) :
                  LastItem.tags[j] \notin DOMAIN arr_tags_cache[last.inst][1]}}

\* C37: a tag ID the Arr mapping lacks becomes the label "Unknown-<id>",
\* which is compared and sent like every other label: if the Emby item has
\* no tag of that name the label is in the payload of the tag-add call, and
\* the item is booked under successful_syncs whenever that call succeeds (as
\* a failure otherwise, as with any label); if the item has a tag of that
\* name the label is not sent.
C37_SentinelLabels ==
    (LabelsResolved /\ arr_tags_cache[last.inst] # None) =>
        \A u \in SentinelLabels :
            /\ u \in SeqToSet(last.new_tags)
            /\ u \notin last.current =>
                  /\ last.called
                  /\ u \in SeqToSet(last.payload)
                  /\ last.code \in {"updated", "failed"}
                  /\ last.code = "updated" <=> (dry_run \/ last.message = "Added tags")
                  /\ (JustBooked /\ last.code = "updated") =>
                        stats = [last.before EXCEPT !.processed_items = @ + 1,
                                                    !.successful_syncs = @ + 1]
            /\ u \in last.current =>
                  /\ u \notin SeqToSet(last.payload)
                  /\ SeqToSet(last.new_tags) \subseteq last.current =>
                        (last.code = "already_synced" /\ ~last.called)

\* A sonarr item whose only tag ID is unknown matched the series, which has
\* no tag "Unknown-3": the label was sent and the item counted as updated.
C37_Witness ==
    /\ JustBooked
    /\ arr_type[last.inst] = "sonarr"
    /\ LastItem.tags = <<3>>
    /\ last.emby_id = "e3"
    /\ last.payload = <<"Unknown-3">>
    /\ last.posted
    /\ last.code = "updated"
    /\ stats.successful_syncs = last.before.successful_syncs + 1

\* A radarr item with the same tag ID matched the movie that already has a
\* tag named "Unknown-3": nothing was sent.
C37_WitnessPresent ==
    /\ last.arr_item # None
    /\ LastItem.tags = <<3>>
    /\ last.emby_id = "e2"
    /\ last.code = "already_synced"
    /\ last.current = {"Unknown-3"}

\* Two statistics records have the same counters and as many errors.
SameStatistics(st1, st2) ==
    /\ \A c \in Counters : st1[c] = st2[c]
    /\ Len(st1.errors) = Len(st2.errors)

\* What a per-item call returned in a run that writes (wet) and in a dry run
\* (dry) leads to the same bookkeeping and leaves the same caches; the calls
\* differ in the message of an update and in the request sent to the server.
SameOutcome(wet, dry, st, item_no) ==
    /\ wet.code = dry.code
    /\ wet.success = dry.success
    /\ wet.ec = dry.ec
    /\ wet.cache = dry.cache
    /\ wet.payload = dry.payload
    /\ SameStatistics(record_result(st, wet, item_no), record_result(st, dry, item_no))
    /\ record_result(st, wet, item_no).errors = record_result(st, dry, item_no).errors
    /\ wet.message # dry.message => (wet.message = "Added tags" /\ dry.message = "Would add tags")
    /\ ~dry.posted
    /\ dry.server = embyInit

\* The next per-item call of the run, made with dry-run off against the
\* server as the run has left it, and made with dry-run on against the
\* server as it was before the run; every write succeeds.
NextCallWet(fault, response, ok) ==
    sync_tags_for_item_structured(emby_client, arr_tags_cache[inst], embyTags, FALSE,
                                  arr_type[inst], batch_order(arr_items, batch_size)[1][pos + 1],
                                  fault, response, "ok", ok)
NextCallDry(fault, response, ok) ==
    sync_tags_for_item_structured(emby_client, arr_tags_cache[inst], embyInit, TRUE,
                                  arr_type[inst], batch_order(arr_items, batch_size)[1][pos + 1],
                                  fault, response, "ok", ok)

\* The listing the warm-up of the current instance fetches from a server.
NextListing(server, ok) ==
    IF arr_type[inst] = "radarr" THEN get_all_movies(emby_client, server, ok)
    ELSE get_all_series(emby_client, server, ok)

\* What C38 says of one state of a run.
ModesInStep ==
    /\ dry_run => (embyTags = embyInit /\ writes = 0)
    /\ pc = "warm" =>
          \A ok \in BOOLEAN : NextListing(embyTags, ok) = NextListing(embyInit, ok)
    /\ (pc = "items" /\ pos < Len(batch_order(arr_items, batch_size)[1])) =>
          \A fault \in ItemFaults, response \in TagResponses, ok \in BOOLEAN :
              SameOutcome(NextCallWet(fault, response, ok), NextCallDry(fault, response, ok),
                          stats, pos + 1)

\* C38: a run that writes and a dry run on the same inputs, every write
\* succeeding, stay in step: they differ in dry_run, in the server's tags
\* (a dry run leaves them as they were, sends nothing) and in the message of
\* an update, and in nothing the statistics depend on.  From every state of
\* a run, the warm-up fetches the same listing from the server as written so
\* far as from the untouched server, and the next per-item call returns the
\* same code, leaves the same caches and is booked into the same counters
\* and errors in both modes; in a dry run the server stays untouched.
C38_DryRunEquivalence == []ModesInStep

\* A run that writes has changed the server's tags, and its next call adds
\* tags to an item already written to: the dry run's call returns the same
\* code with the other message and sends nothing.
C38_Witness ==
    /\ pc = "items"
    /\ ~dry_run
    /\ pos < Len(batch_order(arr_items, batch_size)[1])
    /\ \E response \in TagResponses :
          /\ NextCallWet("none", response, TRUE).code = "updated"
          /\ NextCallWet("none", response, TRUE).posted
          /\ NextCallWet("none", response, TRUE).message = "Added tags"
          /\ NextCallDry("none", response, TRUE).message = "Would add tags"
          /\ embyTags[NextCallWet("none", response, TRUE).emby_id]
                # embyInit[NextCallWet("none", response, TRUE).emby_id]

\* The mappings an answered tag request of an instance may give.
FetchedMappings == {Some(TagsToMapping(<<>>, l)) : l \in ArrTagLists}

\* C39: every sync service has its own tag mapping.  The labels of an item
\* of instance i are resolved with the mapping of instance i; that mapping
\* is set only by a tag request sent to instance i and answered, during a
\* sync of an item of instance i; while another instance is synced it is
\* neither changed nor is a tag request sent to instance i.  So two
\* instances may hold different labels for one tag ID.
C39_MappingPerInstance ==
    /\ [](LabelsResolved =>
            /\ arr_tags_cache[last.inst] # None
            /\ last.new_tags = resolve_tag_labels(arr_tags_cache[last.inst][1], LastItem.tags))
    /\ [][\A i \in Insts :
            (arr_tags_cache'[i] # arr_tags_cache[i] \/ requests'[i].tags # requests[i].tags) =>
                /\ i = inst
                /\ pc = "items"
                /\ requests'[i].tags = requests[i].tags + 1
                /\ arr_tags_cache'[i] # arr_tags_cache[i] =>
                      (arr_tags_cache[i] = None /\ arr_tags_cache'[i] \in FetchedMappings)]_vars

\* The two instances hold different labels for tag ID 1, and an item of the
\* second with that ID was resolved to the second instance's label.
C39_Witness ==
    /\ \A i \in Insts : arr_tags_cache[i] # None
    /\ arr_tags_cache[1][1][1] = "A"
    /\ arr_tags_cache[2][1][1] = "B"
    /\ last.inst = 2
    /\ LabelsResolved
    /\ LastItem.tags = <<1>>
    /\ last.new_tags = <<"B">>
====
